---- MODULE Spec2Model ----
(***************************************************************************)
(* DepSite: the deployment pipeline of the nginx site deployment tool.     *)
(*                                                                         *)
(* Strings the program inspects character by character (project names,    *)
(* domain names) are sequences of one-character strings.  Every awaited    *)
(* external call (command, probe, prompt) is one step: the action holds    *)
(* the call, its outcome and the synchronous code that follows it up to    *)
(* the next await.  A command that fails leaves the file system as it was. *)
(***************************************************************************)
EXTENDS Integers, Sequences, FiniteSets, TLC

(***************************************************************************)
(* Characters                                                              *)
(***************************************************************************)
LowerChars == {"a", "b"}
UpperChars == {"A"}
DigitChars == {"1"}
AlnumChars == LowerChars \cup UpperChars \cup DigitChars
Space == " "

\* src/src/config/constants.ts: VALIDATION_RULES
PROJECT_NAME_MIN_LENGTH == 1
PROJECT_NAME_MAX_LENGTH == 50
DOMAIN_NAME_MIN_LENGTH == 3
DOMAIN_NAME_MAX_LENGTH == 253
DOMAIN_LABEL_MAX == 63
PORT_NUMBER_MIN == 1
PORT_NUMBER_MAX == 65535
RESERVED_PORTS == {22, 25, 53, 80, 110, 143, 443, 993, 995}

\* the character class [a-zA-Z0-9-_] of ALLOWED_CHARS and of the sanitizer
ALLOWED_CHARS == AlnumChars \cup {"-", "_"}

(***************************************************************************)
(* String helpers (String.prototype.trim, replace, toLowerCase)            *)
(***************************************************************************)
RECURSIVE TrimLeft(_)
TrimLeft(s) ==
    IF s # <<>> /\ Head(s) = Space THEN TrimLeft(Tail(s)) ELSE s

RECURSIVE TrimRight(_)
TrimRight(s) ==
    IF s # <<>> /\ s[Len(s)] = Space
    THEN TrimRight(SubSeq(s, 1, Len(s) - 1))
    ELSE s

trim(s) == TrimRight(TrimLeft(s))

toLowerChar(c) == IF c = "A" THEN "a" ELSE c

toLowerCase(s) == [i \in 1..Len(s) |-> toLowerChar(s[i])]

\* .replace(/[^a-zA-Z0-9-_]/g, '-')
ReplaceDisallowed(s) ==
    [i \in 1..Len(s) |-> IF s[i] \in ALLOWED_CHARS THEN s[i] ELSE "-"]

\* .replace(/-+/g, '-')
RECURSIVE CollapseHyphens(_)
CollapseHyphens(s) ==
    IF Len(s) < 2 THEN s
    ELSE IF s[1] = "-" /\ s[2] = "-" THEN CollapseHyphens(Tail(s))
    ELSE <<Head(s)>> \o CollapseHyphens(Tail(s))

\* .replace(/^-+|-+$/g, '')
RECURSIVE StripLeadingHyphens(_)
StripLeadingHyphens(s) ==
    IF s # <<>> /\ Head(s) = "-" THEN StripLeadingHyphens(Tail(s)) ELSE s

RECURSIVE StripTrailingHyphens(_)
StripTrailingHyphens(s) ==
    IF s # <<>> /\ s[Len(s)] = "-"
    THEN StripTrailingHyphens(SubSeq(s, 1, Len(s) - 1))
    ELSE s

(***************************************************************************)
(* Numbers (parseInt, NaN and its comparisons)                             *)
(***************************************************************************)
NaN == [isNaN |-> TRUE, value |-> 0]

Number(n) == [isNaN |-> FALSE, value |-> n]

\* a < n for a number a that may be NaN: every comparison with NaN is false
jsLessThan(a, n) == ~a.isNaN /\ a.value < n

DecimalDigits == <<"0", "1", "2", "3", "4", "5", "6", "7", "8", "9">>

IsDigit(c) == \E d \in 1..Len(DecimalDigits) : DecimalDigits[d] = c

DigitValue(c) == (CHOOSE d \in 1..Len(DecimalDigits) : DecimalDigits[d] = c) - 1

\* the value of the digits s starts with
RECURSIVE parseDigits(_, _)
parseDigits(s, value) ==
    IF s = <<>> \/ ~IsDigit(Head(s)) THEN value
    ELSE parseDigits(Tail(s), value * 10 + DigitValue(Head(s)))

\* parseInt(s, 10): leading whitespace is skipped, a sign is read, then the
\* longest run of digits; NaN when there is no digit
parseInt(s) ==
    LET t == TrimLeft(s)
        negative == t # <<>> /\ Head(t) = "-"
        digits == IF negative THEN Tail(t) ELSE t
    IN  IF digits = <<>> \/ ~IsDigit(Head(digits)) THEN NaN
        ELSE IF negative THEN Number(0 - parseDigits(digits, 0))
        ELSE Number(parseDigits(digits, 0))

(***************************************************************************)
(* InputSanitizer                                                          *)
(***************************************************************************)
\* sanitizeProjectName: `if (!name || typeof name !== 'string') throw`
sanitizeProjectNameThrows(name) == name = <<>>

\* sanitizeProjectName, for a non-empty name (the empty name throws)
sanitizeProjectName(name) ==
    toLowerCase(
        StripTrailingHyphens(
            StripLeadingHyphens(
                CollapseHyphens(ReplaceDisallowed(trim(name))))))

sanitizeDomainName(domain) == toLowerCase(trim(domain))

\* sanitizePortNumber on a number: the error it throws, or "ok"
sanitizePortNumberError(port) ==
    IF port < PORT_NUMBER_MIN \/ port > PORT_NUMBER_MAX THEN "PORT_RANGE"
    ELSE IF port \in RESERVED_PORTS THEN "PORT_RESERVED"
    ELSE "ok"

\* variant: a port outside the range is brought to the nearest bound
sanitizePortNumber_Clamps(port) ==
    [threw |-> port \in RESERVED_PORTS,
     error |-> IF port \in RESERVED_PORTS THEN "PORT_RESERVED" ELSE "",
     value |-> IF port \in RESERVED_PORTS THEN 0
               ELSE IF port < PORT_NUMBER_MIN THEN PORT_NUMBER_MIN
               ELSE IF port > PORT_NUMBER_MAX THEN PORT_NUMBER_MAX
               ELSE port]

\* sanitizePortNumber on a number: what it throws, or the portNum it returns
sanitizePortNumber(port) ==
    [threw |-> sanitizePortNumberError(port) # "ok",
     error |-> IF sanitizePortNumberError(port) # "ok"
               THEN sanitizePortNumberError(port) ELSE "",
     value |-> IF sanitizePortNumberError(port) # "ok" THEN 0 ELSE port]

generateUpstreamName(projectName) ==
    sanitizeProjectName(projectName) \o <<"_", "p", "r", "o", "d">>

\* removeSite: projectName.toLowerCase().replace(/[^a-zA-Z0-9-]/g, '-')
removeSiteCleanProjectName(projectName) ==
    LET lower == toLowerCase(projectName)
    IN  [i \in 1..Len(lower) |->
            IF lower[i] \in AlnumChars \cup {"-"} THEN lower[i] ELSE "-"]

(***************************************************************************)
(* Configuration text                                                      *)
(*                                                                         *)
(* A configuration text is the sequence of its words: the words of the     *)
(* template are strings, an interpolated name is spliced in character by   *)
(* character, a number is written in decimal.  A comment runs from "#" to  *)
(* the end of its line "\n".                                               *)
(***************************************************************************)
\* src/src/config/constants.ts: NGINX_CONFIG
CLIENT_MAX_BODY_SIZE == "20M"
PROXY_READ_TIMEOUT == "300s"
PROXY_CONNECT_TIMEOUT == "75s"

\* ConfigGenerator.buildConfigTemplate
buildConfigTemplate(params) ==
       <<"#", "Upstream", "for">> \o params.projectName \o <<"Production", "\n">>
    \o <<"upstream">> \o params.upstreamName \o <<"{">>
    \o <<"ip_hash", ";">>
    \o <<"server", "127.0.0.1:", ToString(params.portNumber), ";">>
    \o <<"}">>
    \o <<"#", "HTTP", "Server", "Block", "\n">>
    \o <<"server", "{">>
    \o <<"listen", "80", ";">>
    \o <<"server_name">> \o params.domainName \o <<";">>
    \o <<"client_max_body_size", params.clientMaxBodySize, ";">>
    \o <<"charset", "utf-8", ";">>
    \o <<"#", "Security", "headers", "\n">>
    \o <<"add_header", "X-Frame-Options", "\"SAMEORIGIN\"", "always", ";">>
    \o <<"add_header", "X-XSS-Protection", "\"1; mode=block\"", "always", ";">>
    \o <<"add_header", "X-Content-Type-Options", "\"nosniff\"", "always", ";">>
    \o <<"add_header", "Referrer-Policy", "\"no-referrer-when-downgrade\"",
         "always", ";">>
    \o <<"add_header", "Content-Security-Policy",
         "\"default-src 'self' http: https: data: blob: 'unsafe-inline'\"",
         "always", ";">>
    \o <<"#", "Custom", "error", "pages", "\n">>
    \o <<"error_page", "404", "/not-found", ";">>
    \o <<"error_page", "500", "502", "503", "504", "/bad-request", ";">>
    \o <<"#", "Main", "location", "block", "\n">>
    \o <<"location", "/", "{">>
    \o <<"proxy_pass", "http://">> \o params.upstreamName \o <<";">>
    \o <<"proxy_http_version", "1.1", ";">>
    \o <<"proxy_set_header", "Upgrade", "$http_upgrade", ";">>
    \o <<"proxy_set_header", "Connection", "'upgrade'", ";">>
    \o <<"proxy_set_header", "Host", "$host", ";">>
    \o <<"proxy_set_header", "X-Real-IP", "$remote_addr", ";">>
    \o <<"proxy_set_header", "X-Forwarded-For", "$proxy_add_x_forwarded_for",
         ";">>
    \o <<"proxy_set_header", "X-Forwarded-Proto", "$scheme", ";">>
    \o <<"proxy_cache_bypass", "$http_upgrade", ";">>
    \o <<"proxy_read_timeout", params.proxyReadTimeout, ";">>
    \o <<"proxy_connect_timeout", params.proxyConnectTimeout, ";">>
    \o <<"#", "Additional", "proxy", "settings", "\n">>
    \o <<"proxy_buffering", "on", ";">>
    \o <<"proxy_buffer_size", "128k", ";">>
    \o <<"proxy_buffers", "4", "256k", ";">>
    \o <<"proxy_busy_buffers_size", "256k", ";">>
    \o <<"}">>
    \o <<"#", "Health", "check", "endpoint", "\n">>
    \o <<"location", "/health", "{">>
    \o <<"access_log", "off", ";">>
    \o <<"return", "200", "\"healthy\\n\"", ";">>
    \o <<"add_header", "Content-Type", "text/plain", ";">>
    \o <<"}">>
    \o <<"#", "Block", "access", "to", "sensitive", "files", "\n">>
    \o <<"location", "~", "/\\.", "{">>
    \o <<"deny", "all", ";">>
    \o <<"}">>
    \o <<"location", "~*", "\\.(env|log|ini|conf)$", "{">>
    \o <<"deny", "all", ";">>
    \o <<"}">>
    \o <<"}">>

\* ConfigGenerator.generateNginxConfig
generateNginxConfig(config) ==
    buildConfigTemplate(
        [projectName |-> config.projectName,
         cleanProjectName |-> config.cleanProjectName,
         domainName |-> config.domainName,
         portNumber |-> config.portNumber,
         upstreamName |-> config.upstreamName,
         clientMaxBodySize |-> CLIENT_MAX_BODY_SIZE,
         proxyReadTimeout |-> PROXY_READ_TIMEOUT,
         proxyConnectTimeout |-> PROXY_CONNECT_TIMEOUT])

\* variant: the block is left open
buildSSLConfigBlock_Unclosed(config) ==
       <<"#", "HTTPS", "Server", "Block", "(Added", "by", "Certbot)", "\n">>
    \o <<"server", "{">>
    \o <<"listen", "443", "ssl", "http2", ";">>
    \o <<"server_name">> \o config.domainName \o <<";">>

\* ConfigGenerator.buildSSLConfigBlock
buildSSLConfigBlock(config) ==
       <<"#", "HTTPS", "Server", "Block", "(Added", "by", "Certbot)", "\n">>
    \o <<"server", "{">>
    \o <<"listen", "443", "ssl", "http2", ";">>
    \o <<"server_name">> \o config.domainName \o <<";">>
    \o <<"#", "SSL", "Configuration", "will", "be", "managed", "by", "Certbot",
         "\n">>
    \o <<"ssl_certificate", "/etc/letsencrypt/live/">> \o config.domainName
    \o <<"/fullchain.pem", ";">>
    \o <<"ssl_certificate_key", "/etc/letsencrypt/live/">> \o config.domainName
    \o <<"/privkey.pem", ";">>
    \o <<"include", "/etc/letsencrypt/options-ssl-nginx.conf", ";">>
    \o <<"ssl_dhparam", "/etc/letsencrypt/ssl-dhparams.pem", ";">>
    \o <<"#", "Additional", "SSL", "security", "headers", "\n">>
    \o <<"add_header", "Strict-Transport-Security",
         "\"max-age=31536000; includeSubDomains\"", "always", ";">>
    \o <<"#", "Main", "location", "block", "for", "SSL", "\n">>
    \o <<"location", "/", "{">>
    \o <<"proxy_pass", "http://">> \o config.upstreamName \o <<";">>
    \o <<"proxy_http_version", "1.1", ";">>
    \o <<"proxy_set_header", "Upgrade", "$http_upgrade", ";">>
    \o <<"proxy_set_header", "Connection", "'upgrade'", ";">>
    \o <<"proxy_set_header", "Host", "$host", ";">>
    \o <<"proxy_set_header", "X-Real-IP", "$remote_addr", ";">>
    \o <<"proxy_set_header", "X-Forwarded-For", "$proxy_add_x_forwarded_for",
         ";">>
    \o <<"proxy_set_header", "X-Forwarded-Proto", "https", ";">>
    \o <<"proxy_cache_bypass", "$http_upgrade", ";">>
    \o <<"}">>
    \o <<"}">>

\* ConfigGenerator.generateSSLConfig: `${baseConfig}\n\n${sslConfig}`
generateSSLConfig(config) ==
    generateNginxConfig(config) \o <<"\n", "\n">> \o buildSSLConfigBlock(config)

\* NginxService.generateConfiguration
generateConfiguration(config) ==
       <<"#", "Upstream", "for">> \o config.projectName \o <<"Production", "\n">>
    \o <<"upstream">> \o config.upstreamName \o <<"{">>
    \o <<"ip_hash", ";">>
    \o <<"server", "127.0.0.1:", ToString(config.portNumber), ";">>
    \o <<"}">>
    \o <<"#", "HTTP", "Server", "Block", "\n">>
    \o <<"server", "{">>
    \o <<"listen", "80", ";">>
    \o <<"server_name">> \o config.domainName \o <<";">>
    \o <<"client_max_body_size", CLIENT_MAX_BODY_SIZE, ";">>
    \o <<"charset", "utf-8", ";">>
    \o <<"#", "Custom", "error", "pages", "\n">>
    \o <<"error_page", "404", "/not-found", ";">>
    \o <<"error_page", "500", "502", "503", "504", "/bad-request", ";">>
    \o <<"location", "/", "{">>
    \o <<"proxy_pass", "http://">> \o config.upstreamName \o <<";">>
    \o <<"proxy_http_version", "1.1", ";">>
    \o <<"proxy_set_header", "Upgrade", "$http_upgrade", ";">>
    \o <<"proxy_set_header", "Connection", "'upgrade'", ";">>
    \o <<"proxy_set_header", "Host", "$host", ";">>
    \o <<"proxy_set_header", "X-Real-IP", "$remote_addr", ";">>
    \o <<"proxy_set_header", "X-Forwarded-For", "$proxy_add_x_forwarded_for",
         ";">>
    \o <<"proxy_set_header", "X-Forwarded-Proto", "$scheme", ";">>
    \o <<"proxy_cache_bypass", "$http_upgrade", ";">>
    \o <<"proxy_read_timeout", PROXY_READ_TIMEOUT, ";">>
    \o <<"proxy_connect_timeout", PROXY_CONNECT_TIMEOUT, ";">>
    \o <<"}">>
    \o <<"}">>

(***************************************************************************)
(* Field validation (ValidationService and the prompts' validators)        *)
(***************************************************************************)
\* /^[a-zA-Z0-9-_]+$/
MatchesAllowedChars(s) ==
    /\ Len(s) >= 1
    /\ \A i \in 1..Len(s) : s[i] \in ALLOWED_CHARS

\* DOMAIN_NAME.PATTERN: dot-separated labels, each of 1..63 characters,
\* alphanumeric with hyphens inside only
MatchesDomainPattern(s) ==
    /\ Len(s) >= 1
    /\ \A i \in 1..Len(s) : s[i] \in AlnumChars \cup {"-", "."}
    /\ s[1] \in AlnumChars
    /\ s[Len(s)] \in AlnumChars
    /\ \A i \in 1..Len(s) :
          s[i] = "." => /\ i > 1 /\ i < Len(s)
                        /\ s[i - 1] \in AlnumChars
                        /\ s[i + 1] \in AlnumChars
    /\ \A i \in 1..Len(s) :
          i + DOMAIN_LABEL_MAX <= Len(s) =>
              \E k \in i..(i + DOMAIN_LABEL_MAX) : s[k] = "."

validateProjectName(projectName) ==
    IF projectName = <<>> THEN <<"Project name is required">>
    ELSE LET trimmed == trim(projectName) IN
         (IF Len(trimmed) < PROJECT_NAME_MIN_LENGTH
          THEN <<"Project name too short">> ELSE <<>>)
      \o (IF Len(trimmed) > PROJECT_NAME_MAX_LENGTH
          THEN <<"Project name too long">> ELSE <<>>)
      \o (IF ~MatchesAllowedChars(trimmed)
          THEN <<"INVALID_PROJECT_NAME">> ELSE <<>>)

validateDomainName(domainName) ==
    IF domainName = <<>> THEN <<"Domain name is required">>
    ELSE LET trimmed == trim(domainName) IN
         (IF Len(trimmed) < DOMAIN_NAME_MIN_LENGTH
          THEN <<"Domain name too short">> ELSE <<>>)
      \o (IF Len(trimmed) > DOMAIN_NAME_MAX_LENGTH
          THEN <<"Domain name too long">> ELSE <<>>)
      \o (IF ~MatchesDomainPattern(trimmed)
          THEN <<"INVALID_DOMAIN_NAME">> ELSE <<>>)

validatePortNumber(portNumber) ==
       (IF portNumber < PORT_NUMBER_MIN \/ portNumber > PORT_NUMBER_MAX
        THEN <<"INVALID_PORT_NUMBER">> ELSE <<>>)
    \o (IF portNumber \in RESERVED_PORTS
        THEN <<"RESERVED_PORT">> ELSE <<>>)

\* SystemService.checkPortInUse: the outcomes of the liveness probe
checkPortInUse == {"listening", "notListening", "throws"}

\* variant: a probe that throws is let through
checkPortConflicts_ErrorPasses(probe) ==
    IF probe = "notListening" THEN <<"No service is running on port">>
    ELSE <<>>

\* ValidationService.checkPortConflicts, given the probe's outcome
checkPortConflicts(probe) ==
    IF probe = "throws" THEN <<"Could not verify port">>
    ELSE IF probe = "notListening" THEN <<"No service is running on port">>
    ELSE <<>>

\* variant: the checks stop at the first one that fails
validateDeploymentConfig_ShortCircuits(config, probe) ==
    IF validateProjectName(config.projectName) # <<>>
    THEN validateProjectName(config.projectName)
    ELSE IF validateDomainName(config.domainName) # <<>>
    THEN validateDomainName(config.domainName)
    ELSE IF validatePortNumber(config.portNumber) # <<>>
    THEN validatePortNumber(config.portNumber)
    ELSE checkPortConflicts(probe)

\* ValidationService.validateDeploymentConfig: every check runs, the errors
\* are collected in order
validateDeploymentConfig(config, probe) ==
       validateProjectName(config.projectName)
    \o validateDomainName(config.domainName)
    \o validatePortNumber(config.portNumber)
    \o checkPortConflicts(probe)

(***************************************************************************)
(* System validation                                                       *)
(***************************************************************************)
\* SystemService.validateSystemResources: requiredSpace
requiredSpace == 1024

\* `df /etc/nginx --output=avail --no-sync -B1`: the command failed, or the
\* line under the header
DfFailed == [ok |-> FALSE, line |-> <<>>]

DfLine(line) == [ok |-> TRUE, line |-> line]

\* SystemService.getAvailableDiskSpace
getAvailableDiskSpace(df) ==
    IF ~df.ok THEN Number(0) ELSE parseInt(trim(df.line))

\* variant: the disk space check is left out
validateSystemRequirements_NoDiskCheck(root, nginx, availableSpace, nginxRunning) ==
    IF root THEN <<"ROOT_USER">>
    ELSE IF ~nginx THEN <<"NGINX_NOT_FOUND">>
    ELSE IF ~nginxRunning THEN <<"Nginx service is not running">>
    ELSE <<>>

\* ValidationService.validateSystemRequirements over the outcomes of the
\* checks it awaits: the first failing check throws, the catch block turns it
\* into the single error of the result
validateSystemRequirements(root, nginx, availableSpace, nginxRunning) ==
    IF root THEN <<"ROOT_USER">>
    ELSE IF ~nginx THEN <<"NGINX_NOT_FOUND">>
    ELSE IF jsLessThan(availableSpace, requiredSpace)
    THEN <<"Insufficient disk space">>
    ELSE IF ~nginxRunning THEN <<"Nginx service is not running">>
    ELSE <<>>

(***************************************************************************)
(* Inputs of the environment                                               *)
(***************************************************************************)
LongName == [i \in 1..(PROJECT_NAME_MAX_LENGTH + 1) |-> "a"]

\* what the operator may type at the project name prompt
ProjectNameInputs ==
    { <<"a">>, <<"A", "_", "b">>, <<" ", "a", " ">>, <<"-">>,
      <<>>, <<" ">>, <<"a", "!", "b">>, LongName }

\* what the operator may type at the domain prompt
DomainNameInputs ==
    { <<"a", ".", "b">>, <<"A", "1", ".", "b">>,
      <<>>, <<"a", "b">>, <<"-", "a", ".", "b">>, <<"a", ".", ".", "b">> }

\* what the operator may type at the port prompt
PortNumberInputs == {0, 443, 3101, 65535, 65536}

\* what `df` may report as available bytes
DfOutputs ==
    { DfFailed,
      DfLine(<<"0">>), DfLine(<<"1">>),
      DfLine(<<"1", "0", "2", "3">>), DfLine(<<"1", "0", "2", "4">>),
      DfLine(<<"1", "0", "2", "5">>), DfLine(<<" ", "4", "0", "9", "6">>),
      DfLine(<<"9", "9", "9", "9", "9">>), DfLine(<<"1", "0", "2", "4", "K">>),
      DfLine(<<"9", "K">>), DfLine(<<"5", "1", "2">>),
      DfLine(<<"1", "0", "2", "2">>), DfLine(<<"2", "0", "4", "8">>),
      DfLine(<<"6", "5", "5", "3", "6">>), DfLine(<<>>), DfLine(<<"-">>) }

\* what the deployment's own system validation may find
AvailableSpaces ==
    { getAvailableDiskSpace(df) :
        df \in {DfFailed, DfLine(<<"1", "0", "2", "3">>),
                DfLine(<<"1", "0", "2", "4">>),
                DfLine(<<" ", "4", "0", "9", "6">>), DfLine(<<"-">>)} }

\* identifiers that have a definition or a link before the run starts
SiteIds == { <<"a">>, <<"a", "_", "b">> }

Signals == {"SIGINT", "SIGTERM"}

\* process.argv[2]: the commands CLI.run tells apart ("bogus" is any other)
Commands == {"deploy", "remove", "help", "bogus"}

\* process.argv.slice(3) of a `remove`: no argument, or a project name
RemoveOptions ==
    { <<>>, << <<"a">> >>, << <<"A">> >>, << <<"a", "_", "b">> >>, << <<"b">> >> }

(***************************************************************************)
(* Paths, results, errors                                                  *)
(***************************************************************************)
NoPath == [dir |-> "", name |-> <<>>]

\* NginxService.getConfigPath / getEnabledPath
getConfigPath(cleanProjectName) ==
    [dir |-> "sites-available", name |-> cleanProjectName]

\* variant: the link is named by the first character of the identifier
getEnabledPath_FirstCharacter(cleanProjectName) ==
    [dir |-> "sites-enabled",
     name |-> IF Len(cleanProjectName) > 1 THEN <<cleanProjectName[1]>>
              ELSE cleanProjectName]

getEnabledPath(cleanProjectName) ==
    [dir |-> "sites-enabled", name |-> cleanProjectName]

NoError == [name |-> "", message |-> "", code |-> "", rollback |-> FALSE]

DeploymentError(message, code, rollback) ==
    [name |-> "DeploymentError", message |-> message, code |-> code,
     rollback |-> rollback]

SystemError(message) ==
    [name |-> "SystemError", message |-> message, code |-> "",
     rollback |-> FALSE]

ValidationError(message) ==
    [name |-> "ValidationError", message |-> message, code |-> "",
     rollback |-> FALSE]

\* NginxOperationResult of an operation whose command succeeded or threw
OperationResult(ok, error) ==
    IF ok THEN [success |-> TRUE, error |-> ""]
    ELSE [success |-> FALSE, error |-> error]

NoResult == [success |-> FALSE, error |-> ""]

NoConfig ==
    [projectName |-> <<>>, domainName |-> <<>>, portNumber |-> 0,
     cleanProjectName |-> <<>>, upstreamName |-> <<>>]

NoRawConfig == [projectName |-> <<>>, domainName |-> <<>>, portNumber |-> 0]

NoSystemChecks ==
    [checked |-> FALSE, nginx |-> FALSE, availableSpace |-> Number(0),
     nginxRunning |-> FALSE]

NoSummary == [produced |-> FALSE, sslEnabled |-> FALSE]

\* no other run
NoRun == [present |-> FALSE]

\* a privileged command as issued, with its outcome
Command(cmd, path, ok) == [cmd |-> cmd, path |-> path, ok |-> ok]

Step(step, ok) == [step |-> step, ok |-> ok]

(***************************************************************************)
(* File system effects of the privileged commands (ProcessService)         *)
(***************************************************************************)
\* `echo ... | sudo tee path`: the definitions present afterwards
writeFileWithSudo(files, path, ok) ==
    IF ok /\ path.dir = "sites-available" THEN files \cup {path.name} ELSE files

\* `sudo ln -sf source destination`: the links present afterwards
createSymlinkWithSudo(links, destination, ok) ==
    IF ok /\ destination.dir = "sites-enabled"
    THEN links \cup {destination.name} ELSE links

\* variant: the removal is computed against the other directory's entries
removeFileWithSudo_WrongDirectory(entries, dir, path, ok) ==
    IF ok /\ path.dir # dir THEN entries \ {path.name} ELSE entries

\* `sudo rm -f path` on the entries of directory dir
removeFileWithSudo(entries, dir, path, ok) ==
    IF ok /\ path.dir = dir THEN entries \ {path.name} ELSE entries

\* an activation link and the path it points at
LinkTo(name, target) == [name |-> name, target |-> target]

\* variant: a link that exists is left as it is
createSymlinkTarget_KeepsExisting(targets, source, destination, ok) ==
    IF ok /\ ~\E t \in targets : t.name = destination.name
    THEN targets \cup {LinkTo(destination.name, source)}
    ELSE targets

\* `ln -sf source destination` on the targets: the link is made or replaced
createSymlinkTarget(targets, source, destination, ok) ==
    IF ok
    THEN {t \in targets : t.name # destination.name}
             \cup {LinkTo(destination.name, source)}
    ELSE targets

\* `rm -f path` on the targets
removeLinkTarget(targets, path, ok) ==
    IF ok /\ path.dir = "sites-enabled"
    THEN {t \in targets : t.name # path.name}
    ELSE targets

\* variant: no definition is ever found
siteExists_Never(files, cleanProjectName) == FALSE

\* NginxService.siteExists: access(configPath); the path of the empty
\* identifier is the definitions directory itself
siteExists(files, cleanProjectName) ==
    cleanProjectName = <<>> \/ cleanProjectName \in files

(***************************************************************************)
(* Prompt validators (PromptService): the first failing rule is the answer *)
(***************************************************************************)
promptValidateProjectName(input) ==
    IF input = <<>> \/ trim(input) = <<>> THEN "Project name is required"
    ELSE LET trimmed == trim(input) IN
         IF Len(trimmed) < PROJECT_NAME_MIN_LENGTH THEN "Project name too short"
         ELSE IF Len(trimmed) > PROJECT_NAME_MAX_LENGTH THEN "Project name too long"
         ELSE IF ~MatchesAllowedChars(trimmed) THEN "INVALID_PROJECT_NAME"
         ELSE "ok"

promptValidateDomainName(input) ==
    IF input = <<>> \/ trim(input) = <<>> THEN "Domain name is required"
    ELSE LET trimmed == trim(input) IN
         IF Len(trimmed) < DOMAIN_NAME_MIN_LENGTH THEN "Domain name too short"
         ELSE IF Len(trimmed) > DOMAIN_NAME_MAX_LENGTH THEN "Domain name too long"
         ELSE IF ~MatchesDomainPattern(trimmed) THEN "INVALID_DOMAIN_NAME"
         ELSE "ok"

promptValidatePortNumber(input) == sanitizePortNumberError(input)

(***************************************************************************)
(* Pre-deployment validation                                               *)
(***************************************************************************)
\* ValidationService.processAndValidateConfig, once validation has passed
processAndValidateConfig(config) ==
    [projectName |-> config.projectName,
     domainName |-> sanitizeDomainName(config.domainName),
     portNumber |-> config.portNumber,
     cleanProjectName |-> sanitizeProjectName(config.projectName),
     upstreamName |-> generateUpstreamName(config.projectName)]

\* ValidationService.validatePreDeployment
validatePreDeployment(config, root, nginx, availableSpace, nginxRunning, probe, files) ==
    LET systemErrors ==
            validateSystemRequirements(root, nginx, availableSpace, nginxRunning)
        fieldErrors == validateDeploymentConfig(config, probe)
        processed == processAndValidateConfig(config)
        allErrors ==
            systemErrors \o
            (IF fieldErrors # <<>> THEN <<"Validation failed">>
             ELSE IF siteExists(files, processed.cleanProjectName)
                  THEN <<"SITE_EXISTS">>
                  ELSE <<>>)
    IN  [isValid |-> allErrors = <<>>,
         errors |-> allErrors,
         fieldErrors |-> fieldErrors,
         hasProcessedConfig |-> fieldErrors = <<>>,
         processedConfig |-> IF fieldErrors = <<>> THEN processed ELSE NoConfig]

(***************************************************************************)
(* State                                                                   *)
(***************************************************************************)
VARIABLES
    command,          \* the CLI command, or "validateAndApply" / "sanitize"
    options,          \* the arguments after the command
    pc,               \* the await the flow is suspended at, or "exited"
    exitCode,         \* the process exit status once pc = "exited"
    isRoot,           \* process.getuid() === 0
    systemChecks,     \* what validateSystem's checks found
    deployerCertbotAvailable, \* NginxSiteDeployer.certbotAvailable (src/index.ts)
    sitesAvailable,   \* identifiers with a definition file
    sitesEnabled,     \* identifiers with an activation link
    linkTargets,      \* what each activation link points at
    initAvailable,    \* sitesAvailable when the run started
    initEnabled,      \* sitesEnabled when the run started
    rawConfig,        \* DeploymentConfig as captured by the prompts
    promptError,      \* the last message a prompt validator answered
    processedConfig,  \* ProcessedConfig
    validationErrors, \* errors of validatePreDeployment
    configErrors,     \* errors of validateDeploymentConfig inside it
    probeResult,      \* outcome of the liveness probe, "none" before it
    rollbackNeeded,   \* executeDeployment's local flag
    siteConfigPath,   \* executeDeployment's local path
    pendingError,     \* the error executeDeployment rethrows after rollback
    handledError,     \* the error ErrorHandler.handle reported
    summary,          \* DeploymentSummary
    applyResult,      \* result returned by validateAndApply
    returned,         \* value returned by the function applied
    configContent,    \* createConfiguration: the text handed to the write
    suspended,        \* the other deploy run, when two run side by side
    cmds,             \* privileged commands issued so far, in order
    steps,            \* pipeline steps taken so far, in order
    log               \* lines written by the output service

env == <<command, options, isRoot, initAvailable, initEnabled, suspended>>
sys == <<systemChecks, deployerCertbotAvailable>>
fs == <<sitesAvailable, sitesEnabled, linkTargets>>
input == <<rawConfig, promptError>>
valid == <<processedConfig, validationErrors, configErrors, probeResult>>
exec == <<rollbackNeeded, siteConfigPath, pendingError>>
out == <<summary, applyResult, returned, configContent>>
ctl == <<pc, exitCode, handledError, log>>
vars ==
    <<command, options, pc, exitCode, isRoot, systemChecks, deployerCertbotAvailable,
      sitesAvailable, sitesEnabled,
      initAvailable, initEnabled, rawConfig, promptError, processedConfig,
      validationErrors, configErrors, probeResult, rollbackNeeded,
      siteConfigPath, pendingError, handledError, summary, applyResult,
      linkTargets, returned, configContent, suspended,
      cmds, steps, log>>

Init ==
    /\ command \in Commands \cup {"validateAndApply"}
    /\ options \in IF command = "remove" THEN RemoveOptions ELSE { <<>> }
    /\ pc = CASE command = "deploy" -> "validateSystem"
              [] command = "validateAndApply" -> "vaOperation"
              [] OTHER -> "run"
    /\ exitCode = 0
    /\ isRoot \in BOOLEAN
    /\ systemChecks = NoSystemChecks
    /\ deployerCertbotAvailable = FALSE
    /\ sitesAvailable \in SUBSET SiteIds
    /\ sitesEnabled \in SUBSET SiteIds
    /\ initAvailable = sitesAvailable
    /\ initEnabled = sitesEnabled
    /\ linkTargets = { LinkTo(id, getConfigPath(id)) : id \in sitesEnabled }
    /\ rawConfig = NoRawConfig
    /\ promptError = ""
    /\ processedConfig = NoConfig
    /\ validationErrors = <<>>
    /\ configErrors = <<>>
    /\ probeResult = "none"
    /\ rollbackNeeded = FALSE
    /\ siteConfigPath = NoPath
    /\ pendingError = NoError
    /\ handledError = NoError
    /\ summary = NoSummary
    /\ applyResult = NoResult
    /\ returned = <<>>
    /\ configContent = <<>>
    /\ suspended = NoRun
    /\ cmds = <<>>
    /\ steps = <<>>
    /\ log = <<>>

(***************************************************************************)
(* Control helpers                                                         *)
(***************************************************************************)
Goto(next, lines) ==
    /\ pc' = next
    /\ log' = lines
    /\ UNCHANGED <<exitCode, handledError>>

\* process.exit(code), or the process ending once deploy() has returned
Exit(code, lines) ==
    /\ pc' = "exited"
    /\ exitCode' = code
    /\ log' = lines
    /\ UNCHANGED handledError

\* ErrorHandler.handle: log the message, note the rollback flag, exit 1
handle(error, lines) ==
    /\ pc' = "exited"
    /\ exitCode' = 1
    /\ handledError' = error
    /\ log' = lines \o <<error.message>> \o
              (IF error.name = "DeploymentError" /\ error.rollback
               THEN <<"Attempting rollback...">> ELSE <<>>)

(***************************************************************************)
(* deploy(): validation and input capture                                  *)
(***************************************************************************)
\* DeploymentOrchestrator.validateSystem
ValidateSystem ==
    /\ command = "deploy"
    /\ pc = "validateSystem"
    /\ \E nginx \in BOOLEAN, nginxRunning \in BOOLEAN, nginxAgain \in BOOLEAN,
          availableSpace \in AvailableSpaces :
          LET errors == validateSystemRequirements(isRoot, nginx, availableSpace,
                                                   nginxRunning)
          IN  /\ systemChecks' =
                     [checked |-> TRUE, nginx |-> nginx,
                      availableSpace |-> availableSpace,
                      nginxRunning |-> nginxRunning]
              /\ IF errors # <<>>
                 THEN /\ handle(DeploymentError("System validation failed",
                                                "SYSTEM_VALIDATION_FAILED", FALSE),
                                log \o errors)
                      /\ steps' = Append(steps, Step("SystemValidated", FALSE))
                 ELSE IF ~nginxAgain
                 THEN \* checkDependencies() throws SystemError
                      /\ handle(SystemError("NGINX_NOT_FOUND"), log)
                      /\ steps' = Append(steps, Step("SystemValidated", FALSE))
                 ELSE /\ Goto("promptProjectName", log)
                      /\ steps' = Append(steps, Step("SystemValidated", TRUE))
    /\ UNCHANGED <<env, deployerCertbotAvailable, fs, input, valid, exec, out, cmds>>

\* PromptService.promptProjectName: a rejected answer is asked again
PromptProjectName ==
    /\ pc = "promptProjectName"
    /\ \E answer \in ProjectNameInputs :
          LET verdict == promptValidateProjectName(answer)
          IN  IF verdict # "ok"
              THEN /\ promptError' = verdict
                   /\ UNCHANGED <<rawConfig, ctl>>
              ELSE /\ rawConfig' = [rawConfig EXCEPT !.projectName = trim(answer)]
                   /\ promptError' = ""
                   /\ Goto("promptDomainName", log)
    /\ UNCHANGED <<env, sys, fs, valid, exec, out, cmds, steps>>

\* PromptService.promptDomainName
PromptDomainName ==
    /\ pc = "promptDomainName"
    /\ \E answer \in DomainNameInputs :
          LET verdict == promptValidateDomainName(answer)
          IN  IF verdict # "ok"
              THEN /\ promptError' = verdict
                   /\ UNCHANGED <<rawConfig, ctl>>
              ELSE /\ rawConfig' = [rawConfig EXCEPT !.domainName = trim(answer)]
                   /\ promptError' = ""
                   /\ Goto("promptPortNumber", log)
    /\ UNCHANGED <<env, sys, fs, valid, exec, out, cmds, steps>>

\* PromptService.promptPortNumber; getUserConfiguration returns after it
PromptPortNumber ==
    /\ pc = "promptPortNumber"
    /\ \E answer \in PortNumberInputs :
          LET verdict == promptValidatePortNumber(answer)
          IN  IF verdict # "ok"
              THEN /\ promptError' = verdict
                   /\ UNCHANGED <<rawConfig, ctl, steps>>
              ELSE /\ rawConfig' = [rawConfig EXCEPT !.portNumber = answer]
                   /\ promptError' = ""
                   /\ Goto("processConfiguration", log)
                   /\ steps' = Append(steps, Step("ConfigCaptured", TRUE))
    /\ UNCHANGED <<env, sys, fs, valid, exec, out, cmds>>

\* variant: only a missing processedConfig throws
processConfigurationThrows_ProcessedOnly(result) ==
    ~result.hasProcessedConfig

\* processConfiguration: `if (!isValid || !processedConfig) throw`
processConfigurationThrows(result) ==
    ~result.isValid \/ ~result.hasProcessedConfig

\* DeploymentOrchestrator.processConfiguration
ProcessConfiguration ==
    /\ pc = "processConfiguration"
    /\ \E nginx \in BOOLEAN, nginxRunning \in BOOLEAN,
          availableSpace \in AvailableSpaces, probe \in checkPortInUse :
          LET result == validatePreDeployment(rawConfig, isRoot, nginx,
                                              availableSpace, nginxRunning,
                                              probe, sitesAvailable)
          IN  /\ validationErrors' = result.errors
              /\ configErrors' = result.fieldErrors
              /\ probeResult' = probe
              /\ processedConfig' = result.processedConfig
              /\ IF processConfigurationThrows(result)
                 THEN /\ handle(DeploymentError("Configuration validation failed",
                                                "CONFIG_VALIDATION_FAILED", FALSE),
                                log \o result.errors)
                      /\ steps' = Append(steps, Step("ConfigValidated", FALSE))
                 ELSE /\ Goto("confirmDeployment", log)
                      /\ steps' = Append(steps, Step("ConfigValidated", TRUE))
    /\ UNCHANGED <<env, sys, fs, input, exec, out, cmds>>

\* variant: a declined confirmation asks for the configuration again
ConfirmDeployment_AsksAgain ==
    /\ pc = "confirmDeployment"
    /\ \E confirmed \in BOOLEAN :
          IF confirmed
          THEN /\ Goto("handleExistingSite", log)
               /\ UNCHANGED <<input, valid, steps>>
          ELSE /\ Goto("promptProjectName", log)
               /\ rawConfig' = NoRawConfig
               /\ promptError' = ""
               /\ processedConfig' = NoConfig
               /\ validationErrors' = <<>>
               /\ configErrors' = <<>>
               /\ probeResult' = "none"
               /\ steps' = <<Step("SystemValidated", TRUE)>>
    /\ UNCHANGED <<env, sys, fs, exec, out, cmds>>

\* variant: a declined confirmation is logged and the run goes on
ConfirmDeployment_GoesOn ==
    /\ pc = "confirmDeployment"
    /\ \E confirmed \in BOOLEAN :
          IF confirmed
          THEN Goto("handleExistingSite", log)
          ELSE Goto("handleExistingSite",
                    log \o <<"Deployment cancelled by user">>)
    /\ UNCHANGED <<env, sys, fs, input, valid, exec, out, cmds, steps>>

\* DeploymentOrchestrator.confirmDeployment
ConfirmDeployment ==
    /\ pc = "confirmDeployment"
    /\ \E confirmed \in BOOLEAN :
          IF confirmed
          THEN Goto("handleExistingSite", log)
          ELSE Exit(0, log \o <<"Deployment cancelled by user">>)
    /\ UNCHANGED <<env, sys, fs, input, valid, exec, out, cmds, steps>>

\* DeploymentOrchestrator.handleExistingSite
HandleExistingSite ==
    /\ pc = "handleExistingSite"
    /\ IF siteExists(sitesAvailable, processedConfig.cleanProjectName)
       THEN \E overwrite \in BOOLEAN :
               IF overwrite
               THEN Goto("createConfiguration",
                         log \o <<"Site configuration already exists",
                                  "Will overwrite existing configuration">>)
               ELSE Exit(0, log \o <<"Site configuration already exists",
                                     "Deployment cancelled by user">>)
       ELSE Goto("createConfiguration", log)
    /\ UNCHANGED <<env, sys, fs, input, valid, exec, out, cmds, steps>>

(***************************************************************************)
(* deploy(): executeDeployment and rollbackDeployment                      *)
(***************************************************************************)
\* variant: the catch block rethrows without rolling back
executeDeploymentCatch_NoRollback(needed, error, lines) ==
    /\ handle(error, lines)
    /\ UNCHANGED pendingError

\* variant: the catch block rolls back whether or not the write succeeded
executeDeploymentCatch_Always(needed, error, lines) ==
    /\ Goto("rollbackDisable",
            lines \o <<"Deployment failed - rolling back changes...">>)
    /\ pendingError' = error

\* the catch block of executeDeployment: roll back when needed, then rethrow
executeDeploymentCatch(needed, error, lines) ==
    IF needed
    THEN /\ Goto("rollbackDisable",
                 lines \o <<"Deployment failed - rolling back changes...">>)
         /\ pendingError' = error
    ELSE /\ handle(error, lines)
         /\ UNCHANGED pendingError

\* variants: a failed step is not noticed
enableFailed_Never(result) == FALSE
testFailed_Never(result) == FALSE
reloadFailed_Never(result) == FALSE

\* `if (!createResult.success) throw`, and the same test after each step
createFailed(result) == ~result.success
enableFailed(result) == ~result.success
testFailed(result) == ~result.success
reloadFailed(result) == ~result.success

\* nginxService.createConfiguration and what follows it
CreateConfiguration ==
    /\ pc = "createConfiguration"
    /\ \E ok \in BOOLEAN :
          LET path == getConfigPath(processedConfig.cleanProjectName)
              createResult == OperationResult(ok, "Command failed")
          IN  /\ cmds' = Append(cmds, Command("write", path, ok))
              /\ configContent' = generateConfiguration(processedConfig)
              /\ sitesAvailable' = writeFileWithSudo(sitesAvailable, path, ok)
              /\ IF createFailed(createResult)
                 THEN /\ executeDeploymentCatch(rollbackNeeded,
                            DeploymentError(createResult.error,
                                            "CONFIG_CREATION_FAILED", FALSE), log)
                      /\ steps' = Append(steps, Step("ConfigWritten", FALSE))
                      /\ UNCHANGED <<rollbackNeeded, siteConfigPath>>
                 ELSE /\ siteConfigPath' = path
                      /\ rollbackNeeded' = TRUE
                      /\ Goto("enableSite", log)
                      /\ steps' = Append(steps, Step("ConfigWritten", TRUE))
                      /\ UNCHANGED pendingError
    /\ UNCHANGED <<env, sys, sitesEnabled, linkTargets, input, valid, summary,
                   applyResult, returned>>

\* nginxService.enableSite and what follows it
EnableSite ==
    /\ pc = "enableSite"
    /\ \E ok \in BOOLEAN :
          LET path == getEnabledPath(processedConfig.cleanProjectName)
              enableResult == OperationResult(ok, "Command failed")
          IN  /\ cmds' = Append(cmds, Command("link", path, ok))
              /\ sitesEnabled' = createSymlinkWithSudo(sitesEnabled, path, ok)
              /\ linkTargets' =
                     createSymlinkTarget(linkTargets,
                         getConfigPath(processedConfig.cleanProjectName), path, ok)
              /\ steps' = Append(steps, Step("SiteEnabled", ok))
              /\ IF enableFailed(enableResult)
                 THEN executeDeploymentCatch(rollbackNeeded,
                          DeploymentError(enableResult.error,
                                          "SITE_ENABLE_FAILED", TRUE), log)
                 ELSE Goto("testConfiguration", log) /\ UNCHANGED pendingError
    /\ UNCHANGED <<env, sys, sitesAvailable, input, valid, rollbackNeeded,
                   siteConfigPath, out>>

\* nginxService.testConfiguration and what follows it
TestConfiguration ==
    /\ pc = "testConfiguration"
    /\ \E ok \in BOOLEAN :
          LET testResult == OperationResult(ok, "Nginx configuration test failed")
          IN  /\ cmds' = Append(cmds, Command("test", NoPath, ok))
              /\ steps' = Append(steps, Step("ConfigTested", ok))
              /\ IF testFailed(testResult)
                 THEN executeDeploymentCatch(rollbackNeeded,
                          DeploymentError(testResult.error,
                                          "CONFIG_TEST_FAILED", TRUE), log)
                 ELSE Goto("reloadNginx", log) /\ UNCHANGED pendingError
    /\ UNCHANGED <<env, sys, fs, input, valid, rollbackNeeded, siteConfigPath, out>>

\* nginxService.reloadNginx and what follows it: the summary is returned
ReloadNginx ==
    /\ pc = "reloadNginx"
    /\ \E ok \in BOOLEAN :
          LET reloadResult == OperationResult(ok, "Failed to reload nginx")
          IN  /\ cmds' = Append(cmds, Command("reload", NoPath, ok))
              /\ steps' = Append(steps, Step("Reloaded", ok))
              /\ IF reloadFailed(reloadResult)
                 THEN /\ executeDeploymentCatch(rollbackNeeded,
                             DeploymentError(reloadResult.error,
                                             "NGINX_RELOAD_FAILED", TRUE), log)
                      /\ UNCHANGED summary
                 ELSE /\ summary' = [produced |-> TRUE, sslEnabled |-> FALSE]
                      /\ Goto("isCertbotAvailable", log)
                      /\ UNCHANGED pendingError
    /\ UNCHANGED <<env, sys, fs, input, valid, rollbackNeeded, siteConfigPath,
                   applyResult, returned,
                   configContent>>

\* variant: a failed link removal ends the rollback, as if disableSite threw
RollbackDisable_Throws ==
    /\ pc = "rollbackDisable"
    /\ \E ok \in BOOLEAN :
          LET path == getEnabledPath(processedConfig.cleanProjectName)
          IN  /\ cmds' = Append(cmds, Command("rm", path, ok))
              /\ sitesEnabled' =
                     removeFileWithSudo(sitesEnabled, "sites-enabled", path, ok)
              /\ linkTargets' = removeLinkTarget(linkTargets, path, ok)
              /\ IF ~ok
                 THEN handle(pendingError,
                             log \o <<"Rollback failed",
                                      "You may need to manually clean up">>)
                 ELSE IF siteConfigPath # NoPath
                 THEN Goto("rollbackRemove", log)
                 ELSE handle(pendingError,
                             log \o <<"Rollback completed successfully">>)
    /\ UNCHANGED <<env, sys, sitesAvailable, input, valid, exec, out, steps>>

\* rollbackDeployment: `await nginxService.disableSite(...)`; the result it
\* returns is not looked at
RollbackDisable ==
    /\ pc = "rollbackDisable"
    /\ \E ok \in BOOLEAN :
          LET path == getEnabledPath(processedConfig.cleanProjectName)
          IN  /\ cmds' = Append(cmds, Command("rm", path, ok))
              /\ sitesEnabled' =
                     removeFileWithSudo(sitesEnabled, "sites-enabled", path, ok)
              /\ linkTargets' = removeLinkTarget(linkTargets, path, ok)
              /\ IF siteConfigPath # NoPath
                 THEN Goto("rollbackRemove", log)
                 ELSE handle(pendingError,
                             log \o <<"Rollback completed successfully">>)
    /\ UNCHANGED <<env, sys, sitesAvailable, input, valid, exec, out, steps>>

\* variant: a failed deletion escapes rollbackDeployment and is what the
\* handler reports
RollbackRemove_Rethrows ==
    /\ pc = "rollbackRemove"
    /\ \E ok \in BOOLEAN :
          /\ cmds' = Append(cmds, Command("rm", siteConfigPath, ok))
          /\ sitesAvailable' =
                 removeFileWithSudo(sitesAvailable, "sites-available",
                                    siteConfigPath, ok)
          /\ IF ok
             THEN handle(pendingError,
                         log \o <<"Rollback completed successfully">>)
             ELSE handle(SystemError("Command failed"), log)
    /\ UNCHANGED <<env, sys, sitesEnabled, linkTargets, input, valid, exec, out, steps>>

\* rollbackDeployment: `await processService.removeFileWithSudo(...)`, its
\* catch block, then executeDeployment's `throw error` reaching the handler
RollbackRemove ==
    /\ pc = "rollbackRemove"
    /\ \E ok \in BOOLEAN :
          /\ cmds' = Append(cmds, Command("rm", siteConfigPath, ok))
          /\ sitesAvailable' =
                 removeFileWithSudo(sitesAvailable, "sites-available",
                                    siteConfigPath, ok)
          /\ IF ok
             THEN handle(pendingError,
                         log \o <<"Rollback completed successfully">>)
             ELSE handle(pendingError,
                         log \o <<"Rollback failed",
                                  "You may need to manually clean up">>)
    /\ UNCHANGED <<env, sys, sitesEnabled, linkTargets, input, valid, exec, out, steps>>

(***************************************************************************)
(* deploy(): setupSSL and displayDeploymentSummary                         *)
(***************************************************************************)
\* displayDeploymentSummary, after which deploy() returns and the process ends
displayDeploymentSummary(lines) ==
    Exit(0, lines \o <<"Deployment completed successfully!">>)

\* setupSSL: `await sslService.isCertbotAvailable()`
IsCertbotAvailable ==
    /\ pc = "isCertbotAvailable"
    /\ \E certbotAvailable \in BOOLEAN :
          IF certbotAvailable
          THEN Goto("confirmSSLSetup", log) /\ UNCHANGED steps
          ELSE /\ displayDeploymentSummary(
                      log \o <<"Certbot not available - SSL setup skipped">>)
               /\ steps' = steps \o <<Step("CertSkipped", TRUE),
                                      Step("Complete", TRUE)>>
    /\ UNCHANGED <<env, sys, fs, input, valid, exec, out, cmds>>

\* setupSSL: `await promptService.confirmSSLSetup()`
ConfirmSSLSetup ==
    /\ pc = "confirmSSLSetup"
    /\ \E setupSSL \in BOOLEAN :
          IF setupSSL
          THEN Goto("setupSSLWithAutoEmail", log) /\ UNCHANGED steps
          ELSE /\ displayDeploymentSummary(
                      log \o <<"SSL setup skipped by user">>)
               /\ steps' = steps \o <<Step("CertSkipped", TRUE),
                                      Step("Complete", TRUE)>>
    /\ UNCHANGED <<env, sys, fs, input, valid, exec, out, cmds>>

\* variant: a failed issuance is thrown to the handler
SetupSSLWithAutoEmail_Fatal ==
    /\ pc = "setupSSLWithAutoEmail"
    /\ \E ok \in BOOLEAN :
          LET sslResult == OperationResult(ok, "Command failed")
          IN  /\ cmds' = Append(cmds, Command("certbot", NoPath, ok))
              /\ IF sslResult.success
                 THEN /\ summary' = [summary EXCEPT !.sslEnabled = TRUE]
                      /\ steps' = steps \o <<Step("Certified", TRUE),
                                             Step("Complete", TRUE)>>
                      /\ displayDeploymentSummary(
                             log \o <<"SSL certificate configured successfully">>)
                 ELSE /\ UNCHANGED <<summary, steps>>
                      /\ handle(DeploymentError(sslResult.error, "SSL_FAILED",
                                                FALSE),
                                log \o <<"SSL setup failed">>)
    /\ UNCHANGED <<env, sys, fs, input, valid, exec, applyResult, returned,
                   configContent>>

\* variant: the summary is marked whatever the issuance returned
SetupSSLWithAutoEmail_AlwaysEnabled ==
    /\ pc = "setupSSLWithAutoEmail"
    /\ \E ok \in BOOLEAN :
          LET sslResult == OperationResult(ok, "Command failed")
          IN  /\ cmds' = Append(cmds, Command("certbot", NoPath, ok))
              /\ summary' = [summary EXCEPT !.sslEnabled = TRUE]
              /\ IF sslResult.success
                 THEN /\ steps' = steps \o <<Step("Certified", TRUE),
                                             Step("Complete", TRUE)>>
                      /\ displayDeploymentSummary(
                             log \o <<"SSL certificate configured successfully">>)
                 ELSE /\ steps' = steps \o <<Step("CertSkipped", TRUE),
                                             Step("Complete", TRUE)>>
                      /\ displayDeploymentSummary(log \o <<"SSL setup failed">>)
    /\ UNCHANGED <<env, sys, fs, input, valid, exec, applyResult, returned,
                   configContent>>

\* setupSSL: `await sslService.setupSSLWithAutoEmail(domain)`, which returns
\* a result whether or not the issuance command succeeded
SetupSSLWithAutoEmail ==
    /\ pc = "setupSSLWithAutoEmail"
    /\ \E ok \in BOOLEAN :
          LET sslResult == OperationResult(ok, "Command failed")
          IN  /\ cmds' = Append(cmds, Command("certbot", NoPath, ok))
              /\ IF sslResult.success
                 THEN /\ summary' = [summary EXCEPT !.sslEnabled = TRUE]
                      /\ steps' = steps \o <<Step("Certified", TRUE),
                                             Step("Complete", TRUE)>>
                      /\ displayDeploymentSummary(
                             log \o <<"SSL certificate configured successfully">>)
                 ELSE /\ UNCHANGED summary
                      /\ steps' = steps \o <<Step("CertSkipped", TRUE),
                                             Step("Complete", TRUE)>>
                      /\ displayDeploymentSummary(log \o <<"SSL setup failed">>)
    /\ UNCHANGED <<env, sys, fs, input, valid, exec, applyResult, returned,
                   configContent>>

(***************************************************************************)
(* Signals (CLI.setupSignalHandlers)                                       *)
(***************************************************************************)
signalExitCode(signal) == IF signal = "SIGINT" THEN 130 ELSE 143

\* variant: a signal during a deployment that needs rollback starts it
Interrupt_RollsBack ==
    /\ command \in {"deploy", "remove"}
    /\ pc \notin {"exited", "run"}
    /\ \E signal \in Signals :
          IF rollbackNeeded /\ pc \notin {"rollbackDisable", "rollbackRemove"}
          THEN /\ Goto("rollbackDisable", log \o <<signal>>)
               /\ pendingError' = DeploymentError(signal, "INTERRUPTED", TRUE)
          ELSE /\ Exit(signalExitCode(signal), log \o <<signal>>)
               /\ UNCHANGED pendingError
    /\ UNCHANGED <<env, sys, fs, input, valid, rollbackNeeded, siteConfigPath,
                   out, cmds, steps>>

\* the SIGINT / SIGTERM handlers: log and process.exit, nothing else
Interrupt ==
    /\ command \in {"deploy", "remove"}
    /\ pc \notin {"exited", "run"}
    /\ \E signal \in Signals :
          Exit(signalExitCode(signal), log \o <<signal>>)
    /\ UNCHANGED <<env, sys, fs, input, valid, exec, out, cmds, steps>>

(***************************************************************************)
(* NginxService.validateAndApply(operation)                                *)
(***************************************************************************)
\* `await operation()`: the caller's operation completes or throws
VaOperation ==
    /\ command = "validateAndApply"
    /\ pc = "vaOperation"
    /\ \E throws \in BOOLEAN :
          IF throws
          THEN /\ applyResult' = OperationResult(FALSE, "Operation failed")
               /\ Goto("returned", log)
          ELSE /\ UNCHANGED applyResult
               /\ Goto("vaTest", log)
    /\ UNCHANGED <<env, sys, fs, input, valid, exec, summary, returned, configContent,
                   cmds, steps>>

\* `await this.testConfiguration()`
VaTest ==
    /\ pc = "vaTest"
    /\ \E ok \in BOOLEAN :
          LET testResult == OperationResult(ok, "Nginx configuration test failed")
          IN  /\ cmds' = Append(cmds, Command("test", NoPath, ok))
              /\ IF testFailed(testResult)
                 THEN /\ applyResult' = OperationResult(FALSE, testResult.error)
                      /\ Goto("returned", log)
                 ELSE /\ UNCHANGED applyResult
                      /\ Goto("vaReload", log)
    /\ UNCHANGED <<env, sys, fs, input, valid, exec, summary, returned, configContent,
                   steps>>

\* `await this.reloadNginx()`
VaReload ==
    /\ pc = "vaReload"
    /\ \E ok \in BOOLEAN :
          LET reloadResult == OperationResult(ok, "Failed to reload nginx")
          IN  /\ cmds' = Append(cmds, Command("reload", NoPath, ok))
              /\ applyResult' =
                     IF reloadFailed(reloadResult)
                     THEN OperationResult(FALSE, reloadResult.error)
                     ELSE OperationResult(TRUE, "")
              /\ Goto("returned", log)
    /\ UNCHANGED <<env, sys, fs, input, valid, exec, summary, returned, configContent,
                   steps>>

(***************************************************************************)
(* CLI.run: the commands other than deploy                                 *)
(***************************************************************************)
\* the switch of CLI.run, up to the first await of the command it starts
Run ==
    /\ pc = "run"
    /\ CASE command = "help" -> Exit(0, log \o <<"Usage:">>)
         [] command = "remove" ->
                IF options = <<>>
                THEN Exit(1, log \o <<"Please specify a project name to remove",
                                      "Usage:">>)
                ELSE Goto("removeSiteExists", log)
         [] OTHER -> Exit(1, log \o <<"Unknown command", "Usage:">>)
    /\ UNCHANGED <<env, sys, fs, input, valid, exec, out, cmds, steps>>

\* removeSite: `await nginxService.siteExists(cleanProjectName)`; a missing
\* site is logged and removeSite returns, so the process ends normally
RemoveSiteExists ==
    /\ pc = "removeSiteExists"
    /\ LET cleanProjectName == removeSiteCleanProjectName(options[1])
       IN  IF ~siteExists(sitesAvailable, cleanProjectName)
           THEN Exit(0, log \o <<"Site does not exist">>)
           ELSE Goto("removeSiteConfirm", log)
    /\ UNCHANGED <<env, sys, fs, input, valid, exec, out, cmds, steps>>

\* variant: a declined removal is logged and the removal goes on
RemoveSiteConfirm_GoesOn ==
    /\ pc = "removeSiteConfirm"
    /\ \E confirmed \in BOOLEAN :
          IF confirmed
          THEN Goto("removeSiteDisable", log)
          ELSE Goto("removeSiteDisable", log \o <<"Site removal cancelled">>)
    /\ UNCHANGED <<env, sys, fs, input, valid, exec, out, cmds, steps>>

\* removeSite: `await promptService.confirm(..., false)`
RemoveSiteConfirm ==
    /\ pc = "removeSiteConfirm"
    /\ \E confirmed \in BOOLEAN :
          IF confirmed
          THEN Goto("removeSiteDisable", log)
          ELSE Exit(0, log \o <<"Site removal cancelled">>)
    /\ UNCHANGED <<env, sys, fs, input, valid, exec, out, cmds, steps>>

\* nginxService.removeSite: `await removeFileWithSudo(enabledPath)`; a
\* failure is returned as the result and removeSite throws SITE_REMOVAL_FAILED
RemoveSiteDisable ==
    /\ pc = "removeSiteDisable"
    /\ \E ok \in BOOLEAN :
          LET path == getEnabledPath(removeSiteCleanProjectName(options[1]))
              removeResult == OperationResult(ok, "Command failed")
          IN  /\ cmds' = Append(cmds, Command("rm", path, ok))
              /\ sitesEnabled' =
                     removeFileWithSudo(sitesEnabled, "sites-enabled", path, ok)
              /\ linkTargets' = removeLinkTarget(linkTargets, path, ok)
              /\ IF ~removeResult.success
                 THEN handle(DeploymentError(removeResult.error,
                                             "SITE_REMOVAL_FAILED", FALSE), log)
                 ELSE Goto("removeSiteDelete", log)
    /\ UNCHANGED <<env, sys, sitesAvailable, input, valid, exec, out, steps>>

\* nginxService.removeSite: `await removeFileWithSudo(configPath)`
RemoveSiteDelete ==
    /\ pc = "removeSiteDelete"
    /\ \E ok \in BOOLEAN :
          LET path == getConfigPath(removeSiteCleanProjectName(options[1]))
              removeResult == OperationResult(ok, "Command failed")
          IN  /\ cmds' = Append(cmds, Command("rm", path, ok))
              /\ sitesAvailable' =
                     removeFileWithSudo(sitesAvailable, "sites-available",
                                        path, ok)
              /\ IF ~removeResult.success
                 THEN handle(DeploymentError(removeResult.error,
                                             "SITE_REMOVAL_FAILED", FALSE), log)
                 ELSE Goto("removeSiteReload", log)
    /\ UNCHANGED <<env, sys, sitesEnabled, linkTargets, input, valid, exec, out, steps>>

\* variant: a failed reload is thrown to the handler
RemoveSiteReload_Fatal ==
    /\ pc = "removeSiteReload"
    /\ \E ok \in BOOLEAN :
          /\ cmds' = Append(cmds, Command("reload", NoPath, ok))
          /\ IF ok
             THEN Exit(0, log \o <<"Site removed successfully">>)
             ELSE handle(DeploymentError("Failed to reload nginx",
                                         "NGINX_RELOAD_FAILED", FALSE), log)
    /\ UNCHANGED <<env, sys, fs, input, valid, exec, out, steps>>

\* removeSite: `await nginxService.reloadNginx()`; a failed reload is a
\* warning, and removeSite returns
RemoveSiteReload ==
    /\ pc = "removeSiteReload"
    /\ \E ok \in BOOLEAN :
          /\ cmds' = Append(cmds, Command("reload", NoPath, ok))
          /\ Exit(0, log \o (IF ok THEN <<>>
                             ELSE <<"Failed to reload nginx after site removal">>)
                     \o <<"Site removed successfully">>)
    /\ UNCHANGED <<env, sys, fs, input, valid, exec, out, steps>>

(***************************************************************************)
(* Specification                                                           *)
(***************************************************************************)
Next ==
    \/ ValidateSystem
    \/ PromptProjectName
    \/ PromptDomainName
    \/ PromptPortNumber
    \/ ProcessConfiguration
    \/ ConfirmDeployment
    \/ HandleExistingSite
    \/ CreateConfiguration
    \/ EnableSite
    \/ TestConfiguration
    \/ ReloadNginx
    \/ RollbackDisable
    \/ RollbackRemove
    \/ IsCertbotAvailable
    \/ ConfirmSSLSetup
    \/ SetupSSLWithAutoEmail
    \/ Interrupt
    \/ VaOperation
    \/ VaTest
    \/ VaReload
    \/ Run
    \/ RemoveSiteExists
    \/ RemoveSiteConfirm
    \/ RemoveSiteDisable
    \/ RemoveSiteDelete
    \/ RemoveSiteReload

Spec == Init /\ [][Next]_vars

\* every awaited command, probe and check eventually returns, and every prompt
\* eventually returns an answer its validator accepts
LiveSpec ==
    /\ Spec
    /\ WF_vars(Next)
    /\ WF_vars(PromptProjectName /\ pc' # pc)
    /\ WF_vars(PromptDomainName /\ pc' # pc)
    /\ WF_vars(PromptPortNumber /\ pc' # pc)

(***************************************************************************)
(* InputSanitizer.sanitizeProjectName applied to raw identifiers, twice    *)
(***************************************************************************)
MaxRawLen == 3

SanitizerAlphabet == {"a", "A", "1", "-", "_", " ", "!"}

\* every string of at most MaxRawLen characters
RawIdentifiers == UNION { [1..n -> SanitizerAlphabet] : n \in 0..MaxRawLen }

SanitizerInit ==
    /\ command = "sanitize"
    /\ options = <<>>
    /\ pc = "sanitizeProjectName"
    /\ exitCode = 0
    /\ isRoot = FALSE
    /\ systemChecks = NoSystemChecks
    /\ deployerCertbotAvailable = FALSE
    /\ sitesAvailable = {}
    /\ sitesEnabled = {}
    /\ initAvailable = {}
    /\ initEnabled = {}
    /\ linkTargets = {}
    /\ rawConfig \in { [NoRawConfig EXCEPT !.projectName = raw] :
                          raw \in RawIdentifiers }
    /\ promptError = ""
    /\ processedConfig = NoConfig
    /\ validationErrors = <<>>
    /\ configErrors = <<>>
    /\ probeResult = "none"
    /\ rollbackNeeded = FALSE
    /\ siteConfigPath = NoPath
    /\ pendingError = NoError
    /\ handledError = NoError
    /\ summary = NoSummary
    /\ applyResult = NoResult
    /\ returned = <<>>
    /\ configContent = <<>>
    /\ suspended = NoRun
    /\ cmds = <<>>
    /\ steps = <<>>
    /\ log = <<>>

\* sanitizeProjectName(raw): the result, or the ValidationError it throws
SanitizeProjectName ==
    /\ command = "sanitize"
    /\ pc = "sanitizeProjectName"
    /\ IF sanitizeProjectNameThrows(rawConfig.projectName)
       THEN /\ pendingError' =
                   ValidationError("Project name must be a non-empty string")
            /\ pc' = "threw"
            /\ UNCHANGED processedConfig
       ELSE /\ processedConfig' =
                   [NoConfig EXCEPT
                       !.projectName = rawConfig.projectName,
                       !.cleanProjectName =
                           sanitizeProjectName(rawConfig.projectName)]
            /\ pc' = "sanitizeAgain"
            /\ UNCHANGED pendingError
    /\ UNCHANGED <<env, sys, fs, input, validationErrors, configErrors,
                   probeResult, rollbackNeeded, siteConfigPath, out, exitCode,
                   handledError, log, cmds, steps>>

\* sanitizeProjectName applied to the result of the first application:
\* projectName is now that result, cleanProjectName what it is turned into
SanitizeProjectNameAgain ==
    /\ command = "sanitize"
    /\ pc = "sanitizeAgain"
    /\ LET once == processedConfig.cleanProjectName
       IN  IF sanitizeProjectNameThrows(once)
           THEN /\ pendingError' =
                       ValidationError("Project name must be a non-empty string")
                /\ pc' = "threwAgain"
                /\ UNCHANGED processedConfig
           ELSE /\ processedConfig' =
                       [NoConfig EXCEPT
                           !.projectName = once,
                           !.cleanProjectName = sanitizeProjectName(once)]
                /\ pc' = "sanitizedTwice"
                /\ UNCHANGED pendingError
    /\ UNCHANGED <<env, sys, fs, input, validationErrors, configErrors,
                   probeResult, rollbackNeeded, siteConfigPath, out, exitCode,
                   handledError, log, cmds, steps>>

SanitizerNext == SanitizeProjectName \/ SanitizeProjectNameAgain

SanitizerSpec == SanitizerInit /\ [][SanitizerNext]_vars

(***************************************************************************)
(* The pure functions applied to inputs of their own                       *)
(***************************************************************************)
\* the state before a function is applied: nothing but its argument, which
\* the specification puts into rawConfig
FunctionInit(cmd, start) ==
    /\ command = cmd
    /\ options = <<>>
    /\ pc = start
    /\ exitCode = 0
    /\ isRoot = FALSE
    /\ systemChecks = NoSystemChecks
    /\ deployerCertbotAvailable = FALSE
    /\ sitesAvailable = {}
    /\ sitesEnabled = {}
    /\ linkTargets = {}
    /\ initAvailable = {}
    /\ initEnabled = {}
    /\ promptError = ""
    /\ processedConfig = NoConfig
    /\ validationErrors = <<>>
    /\ configErrors = <<>>
    /\ probeResult = "none"
    /\ rollbackNeeded = FALSE
    /\ siteConfigPath = NoPath
    /\ pendingError = NoError
    /\ handledError = NoError
    /\ summary = NoSummary
    /\ applyResult = NoResult
    /\ returned = <<>>
    /\ configContent = <<>>
    /\ suspended = NoRun
    /\ cmds = <<>>
    /\ steps = <<>>
    /\ log = <<>>

\* how far beyond the valid range the ports tried go
PortMargin == 2

PortNumbers == (0 - PortMargin)..(PORT_NUMBER_MAX + PortMargin)

PortInit ==
    /\ FunctionInit("sanitizePort", "sanitizePortNumber")
    /\ rawConfig \in { [NoRawConfig EXCEPT !.portNumber = port] :
                          port \in PortNumbers }

\* InputSanitizer.sanitizePortNumber(port) for a number
SanitizePortNumber ==
    /\ command = "sanitizePort"
    /\ pc = "sanitizePortNumber"
    /\ LET result == sanitizePortNumber(rawConfig.portNumber)
       IN  IF result.threw
           THEN /\ pendingError' = ValidationError(result.error)
                /\ pc' = "threw"
                /\ UNCHANGED processedConfig
           ELSE /\ processedConfig' =
                       [NoConfig EXCEPT !.portNumber = result.value]
                /\ pc' = "portSanitized"
                /\ UNCHANGED pendingError
    /\ UNCHANGED <<env, sys, fs, input, validationErrors, configErrors,
                   probeResult, rollbackNeeded, siteConfigPath, out, exitCode,
                   handledError, log, cmds, steps>>

PortNext == SanitizePortNumber

PortSpec == PortInit /\ [][PortNext]_vars

(***************************************************************************)
(* ValidationService and ConfigGenerator applied to a raw configuration    *)
(***************************************************************************)
\* any configuration a caller may pass, valid or not
RawConfigs ==
    [projectName : ProjectNameInputs, domainName : DomainNameInputs,
     portNumber : PortNumberInputs]

ConfigInit ==
    /\ FunctionInit("validateConfig", "start")
    /\ rawConfig \in RawConfigs

\* ValidationService.validateDeploymentConfig(config)
ValidateDeploymentConfig ==
    /\ command = "validateConfig"
    /\ pc = "start"
    /\ \E probe \in checkPortInUse :
          LET errors == validateDeploymentConfig(rawConfig, probe)
          IN  /\ probeResult' = probe
              /\ returned' = [isValid |-> Len(errors) = 0, errors |-> errors]
    /\ pc' = "validated"
    /\ UNCHANGED <<env, sys, fs, input, processedConfig, validationErrors,
                   configErrors, exec, summary, applyResult, configContent,
                   exitCode, handledError, log, cmds, steps>>

\* ValidationService.processAndValidateConfig(config)
ProcessAndValidateConfig ==
    /\ command = "validateConfig"
    /\ pc = "start"
    /\ \E probe \in checkPortInUse :
          LET errors == validateDeploymentConfig(rawConfig, probe)
          IN  /\ probeResult' = probe
              /\ validationErrors' = errors
              /\ IF Len(errors) # 0
                 THEN /\ pendingError' = [NoError EXCEPT !.name = "Error",
                                              !.message = "Validation failed"]
                      /\ pc' = "threw"
                      /\ UNCHANGED processedConfig
                 ELSE /\ processedConfig' = processAndValidateConfig(rawConfig)
                      /\ pc' = "processed"
                      /\ UNCHANGED pendingError
    /\ UNCHANGED <<env, sys, fs, input, configErrors, rollbackNeeded,
                   siteConfigPath, out, exitCode, handledError, log, cmds,
                   steps>>

\* ConfigGenerator.generateNginxConfig(config) on the processed configuration
GenerateNginxConfig ==
    /\ command = "validateConfig"
    /\ pc = "processed"
    /\ returned' = generateNginxConfig(processedConfig)
    /\ pc' = "rendered"
    /\ UNCHANGED <<env, sys, fs, input, valid, exec, summary, applyResult,
                   configContent, exitCode, handledError, log, cmds, steps>>

\* ConfigGenerator.generateSSLConfig(config) on the processed configuration
GenerateSSLConfig ==
    /\ command = "validateConfig"
    /\ pc = "processed"
    /\ returned' = generateSSLConfig(processedConfig)
    /\ pc' = "renderedSSL"
    /\ UNCHANGED <<env, sys, fs, input, valid, exec, summary, applyResult,
                   configContent, exitCode, handledError, log, cmds, steps>>

ConfigNext ==
    \/ ValidateDeploymentConfig
    \/ ProcessAndValidateConfig
    \/ GenerateNginxConfig
    \/ GenerateSSLConfig

ConfigSpec == ConfigInit /\ [][ConfigNext]_vars

(***************************************************************************)
(* ValidationService.validateSystemRequirements applied to a system        *)
(***************************************************************************)
SystemInit ==
    /\ command = "validateSystem"
    /\ options = <<>>
    /\ pc = "start"
    /\ exitCode = 0
    /\ isRoot \in BOOLEAN
    /\ systemChecks = NoSystemChecks
    /\ deployerCertbotAvailable = FALSE
    /\ sitesAvailable = {}
    /\ sitesEnabled = {}
    /\ linkTargets = {}
    /\ initAvailable = {}
    /\ initEnabled = {}
    /\ rawConfig = NoRawConfig
    /\ promptError = ""
    /\ processedConfig = NoConfig
    /\ validationErrors = <<>>
    /\ configErrors = <<>>
    /\ probeResult = "none"
    /\ rollbackNeeded = FALSE
    /\ siteConfigPath = NoPath
    /\ pendingError = NoError
    /\ handledError = NoError
    /\ summary = NoSummary
    /\ applyResult = NoResult
    /\ returned = <<>>
    /\ configContent = <<>>
    /\ suspended = NoRun
    /\ cmds = <<>>
    /\ steps = <<>>
    /\ log = <<>>

\* ValidationService.validateSystemRequirements(): the checks of
\* SystemService.validateSystemRequirements and validateSystemResources
ValidateSystemRequirements ==
    /\ command = "validateSystem"
    /\ pc = "start"
    /\ \E nginx \in BOOLEAN, nginxRunning \in BOOLEAN, df \in DfOutputs :
          LET availableSpace == getAvailableDiskSpace(df)
              errors == validateSystemRequirements(isRoot, nginx,
                                                   availableSpace, nginxRunning)
          IN  /\ systemChecks' =
                     [checked |-> TRUE, nginx |-> nginx,
                      availableSpace |-> availableSpace,
                      nginxRunning |-> nginxRunning]
              /\ returned' = [isValid |-> Len(errors) = 0, errors |-> errors]
    /\ pc' = "validated"
    /\ UNCHANGED <<env, deployerCertbotAvailable, fs, input, valid, exec, summary,
                   applyResult, configContent, exitCode, handledError, log,
                   cmds, steps>>

SystemNext == ValidateSystemRequirements

SystemSpec == SystemInit /\ [][SystemNext]_vars

(***************************************************************************)
(* NginxService: its operations called one after the other                 *)
(***************************************************************************)
\* how many operations are called
MaxCalls == 2

\* the definitions, the links and what the links point at
FileSystem ==
    [available |-> sitesAvailable, enabled |-> sitesEnabled,
     targets |-> linkTargets]

\* a call of an operation: the commands it ran, whether the executor failed
\* one of them for a reason of its own (sudo, the spawning of the process),
\* the result it returned, the file system before and after it
Call(operation, id, executed, fault, result, before, after) ==
    [operation |-> operation, id |-> id, executed |-> executed,
     fault |-> fault, result |-> result, before |-> before, after |-> after]

\* a processed configuration for identifier id
ConfigFor(id) ==
    processAndValidateConfig(
        [projectName |-> id, domainName |-> <<"a", ".", "b">>,
         portNumber |-> 3101])

\* variant: the operation lets the failure of its command through
caught_Rethrows(ok, error) ==
    [threw |-> ~ok, result |-> IF ok THEN OperationResult(TRUE, "") ELSE NoResult]

\* try { await command; return { success: true } }
\* catch (error) { return { success: false, error } }
caught(ok, error) == [threw |-> FALSE, result |-> OperationResult(ok, error)]

\* variant: `rm` without -f fails on a path that does not exist
removeFileExit_NoForce(entries, path, executed) ==
    executed /\ path.name \in entries

\* `sudo rm -f path`: whether the command succeeds, given that sudo and rm
\* ran; a path that does not exist is no failure
removeFileExit(entries, path, executed) == executed

\* the links of a file system: at most one per identifier, each pointing at
\* the definition path of some identifier
LinkSets ==
    { links \in SUBSET { LinkTo(id, getConfigPath(to)) : id \in SiteIds,
                                                         to \in SiteIds } :
        \A t \in links, u \in links : t.name = u.name => t = u }

NginxInit ==
    /\ command = "nginxService"
    /\ options = <<>>
    /\ pc = "ready"
    /\ exitCode = 0
    /\ isRoot = FALSE
    /\ systemChecks = NoSystemChecks
    /\ deployerCertbotAvailable = FALSE
    /\ sitesAvailable \in SUBSET SiteIds
    /\ linkTargets \in LinkSets
    /\ sitesEnabled = { t.name : t \in linkTargets }
    /\ initAvailable = sitesAvailable
    /\ initEnabled = sitesEnabled
    /\ rawConfig = NoRawConfig
    /\ promptError = ""
    /\ processedConfig = NoConfig
    /\ validationErrors = <<>>
    /\ configErrors = <<>>
    /\ probeResult = "none"
    /\ rollbackNeeded = FALSE
    /\ siteConfigPath = NoPath
    /\ pendingError = NoError
    /\ handledError = NoError
    /\ summary = NoSummary
    /\ applyResult = NoResult
    /\ returned = <<>>
    /\ configContent = <<>>
    /\ suspended = NoRun
    /\ cmds = <<>>
    /\ steps = <<>>
    /\ log = <<>>

\* an operation may be called
NginxReady ==
    /\ command = "nginxService"
    /\ pc = "ready"
    /\ Len(steps) < MaxCalls

\* the operation ends: it returns its result or throws
NginxReturn(operation, id, executed, fault, outcome, after) ==
    /\ pc' = IF outcome.threw THEN "threw" ELSE "ready"
    /\ applyResult' = outcome.result
    /\ cmds' = cmds \o executed
    /\ steps' = Append(steps, Call(operation, id, executed, fault,
                                   outcome.result, FileSystem, after))

\* NginxService.createConfiguration(config)
NginxCreateConfiguration ==
    /\ NginxReady
    /\ \E id \in SiteIds, ok \in BOOLEAN :
          LET config == ConfigFor(id)
              configPath == getConfigPath(config.cleanProjectName)
              written == writeFileWithSudo(sitesAvailable, configPath, ok)
          IN  /\ processedConfig' = config
              /\ configContent' = generateConfiguration(config)
              /\ sitesAvailable' = written
              /\ NginxReturn("createConfiguration", id,
                             <<Command("write", configPath, ok)>>, ~ok,
                             caught(ok, "Command failed"),
                             [FileSystem EXCEPT !.available = written])
    /\ UNCHANGED <<env, sys, sitesEnabled, linkTargets, input, validationErrors,
                   configErrors, probeResult, exec, summary, returned, exitCode,
                   handledError, log>>

\* NginxService.enableSite(cleanProjectName)
NginxEnableSite ==
    /\ NginxReady
    /\ \E id \in SiteIds, ok \in BOOLEAN :
          LET configPath == getConfigPath(id)
              enabledPath == getEnabledPath(id)
              links == createSymlinkWithSudo(sitesEnabled, enabledPath, ok)
              targets == createSymlinkTarget(linkTargets, configPath,
                                             enabledPath, ok)
          IN  /\ sitesEnabled' = links
              /\ linkTargets' = targets
              /\ NginxReturn("enableSite", id,
                             <<Command("link", enabledPath, ok)>>, ~ok,
                             caught(ok, "Command failed"),
                             [FileSystem EXCEPT !.enabled = links,
                                                !.targets = targets])
    /\ UNCHANGED <<env, sys, sitesAvailable, input, valid, exec, summary,
                   returned, configContent, exitCode, handledError, log>>

\* NginxService.disableSite(cleanProjectName)
NginxDisableSite ==
    /\ NginxReady
    /\ \E id \in SiteIds, executed \in BOOLEAN :
          LET enabledPath == getEnabledPath(id)
              ok == removeFileExit(sitesEnabled, enabledPath, executed)
              links == removeFileWithSudo(sitesEnabled, "sites-enabled",
                                          enabledPath, ok)
              targets == removeLinkTarget(linkTargets, enabledPath, ok)
          IN  /\ sitesEnabled' = links
              /\ linkTargets' = targets
              /\ NginxReturn("disableSite", id,
                             <<Command("rm", enabledPath, ok)>>, ~executed,
                             caught(ok, "Command failed"),
                             [FileSystem EXCEPT !.enabled = links,
                                                !.targets = targets])
    /\ UNCHANGED <<env, sys, sitesAvailable, input, valid, exec, summary,
                   returned, configContent, exitCode, handledError, log>>

\* NginxService.testConfiguration()
NginxTestConfiguration ==
    /\ NginxReady
    /\ \E ok \in BOOLEAN :
          NginxReturn("testConfiguration", <<>>,
                      <<Command("test", NoPath, ok)>>, ~ok,
                      caught(ok, "Nginx configuration test failed"),
                      FileSystem)
    /\ UNCHANGED <<env, sys, fs, input, valid, exec, summary, returned,
                   configContent, exitCode, handledError, log>>

\* NginxService.reloadNginx()
NginxReloadNginx ==
    /\ NginxReady
    /\ \E ok \in BOOLEAN :
          NginxReturn("reloadNginx", <<>>,
                      <<Command("reload", NoPath, ok)>>, ~ok,
                      caught(ok, "Failed to reload nginx"),
                      FileSystem)
    /\ UNCHANGED <<env, sys, fs, input, valid, exec, summary, returned,
                   configContent, exitCode, handledError, log>>

\* variant: the definition is removed whatever became of the link
NginxRemoveSiteEnabled_GoesOn ==
    /\ NginxReady
    /\ \E id \in SiteIds, executed \in BOOLEAN :
          LET enabledPath == getEnabledPath(id)
              ok == removeFileExit(sitesEnabled, enabledPath, executed)
              links == removeFileWithSudo(sitesEnabled, "sites-enabled",
                                          enabledPath, ok)
              targets == removeLinkTarget(linkTargets, enabledPath, ok)
          IN  /\ sitesEnabled' = links
              /\ linkTargets' = targets
              /\ cmds' = Append(cmds, Command("rm", enabledPath, ok))
              /\ steps' = Append(steps,
                     Call("removeSite", id, <<Command("rm", enabledPath, ok)>>,
                          ~executed, NoResult, FileSystem,
                          [FileSystem EXCEPT !.enabled = links,
                                             !.targets = targets]))
              /\ siteConfigPath' = getConfigPath(id)
              /\ pc' = "removeSiteConfig"
              /\ UNCHANGED applyResult
    /\ UNCHANGED <<env, sys, sitesAvailable, input, valid, rollbackNeeded,
                   pendingError, summary, returned, configContent, exitCode,
                   handledError, log>>

\* NginxService.removeSite(cleanProjectName), up to its first await: the
\* link is removed; a failure ends the operation
NginxRemoveSiteEnabled ==
    /\ NginxReady
    /\ \E id \in SiteIds, executed \in BOOLEAN :
          LET enabledPath == getEnabledPath(id)
              ok == removeFileExit(sitesEnabled, enabledPath, executed)
              links == removeFileWithSudo(sitesEnabled, "sites-enabled",
                                          enabledPath, ok)
              targets == removeLinkTarget(linkTargets, enabledPath, ok)
              outcome == caught(ok, "Command failed")
          IN  /\ sitesEnabled' = links
              /\ linkTargets' = targets
              /\ cmds' = Append(cmds, Command("rm", enabledPath, ok))
              /\ steps' = Append(steps,
                     Call("removeSite", id, <<Command("rm", enabledPath, ok)>>,
                          ~executed,
                          IF ok THEN NoResult ELSE outcome.result, FileSystem,
                          [FileSystem EXCEPT !.enabled = links,
                                             !.targets = targets]))
              /\ IF ok
                 THEN /\ siteConfigPath' = getConfigPath(id)
                      /\ pc' = "removeSiteConfig"
                      /\ UNCHANGED applyResult
                 ELSE /\ pc' = IF outcome.threw THEN "threw" ELSE "ready"
                      /\ applyResult' = outcome.result
                      /\ UNCHANGED siteConfigPath
    /\ UNCHANGED <<env, sys, sitesAvailable, input, valid, rollbackNeeded,
                   pendingError, summary, returned, configContent, exitCode,
                   handledError, log>>

\* NginxService.removeSite, from its second await on: the definition is
\* removed and the result returned
NginxRemoveSiteConfig ==
    /\ command = "nginxService"
    /\ pc = "removeSiteConfig"
    /\ \E executed \in BOOLEAN :
          LET configPath == siteConfigPath
              ok == removeFileExit(sitesAvailable, configPath, executed)
              files == removeFileWithSudo(sitesAvailable, "sites-available",
                                          configPath, ok)
              outcome == caught(ok, "Command failed")
              call == steps[Len(steps)]
          IN  /\ sitesAvailable' = files
              /\ cmds' = Append(cmds, Command("rm", configPath, ok))
              /\ steps' = [steps EXCEPT ![Len(steps)] =
                     Call("removeSite", call.id,
                          Append(call.executed, Command("rm", configPath, ok)),
                          call.fault \/ ~executed, outcome.result, call.before,
                          [FileSystem EXCEPT !.available = files])]
              /\ pc' = IF outcome.threw THEN "threw" ELSE "ready"
              /\ applyResult' = outcome.result
              /\ siteConfigPath' = NoPath
    /\ UNCHANGED <<env, sys, sitesEnabled, linkTargets, input, valid,
                   rollbackNeeded, pendingError, summary, returned,
                   configContent, exitCode, handledError, log>>

NginxNext ==
    \/ NginxCreateConfiguration
    \/ NginxEnableSite
    \/ NginxDisableSite
    \/ NginxTestConfiguration
    \/ NginxReloadNginx
    \/ NginxRemoveSiteEnabled
    \/ NginxRemoveSiteConfig

NginxSpec == NginxInit /\ [][NginxNext]_vars

(***************************************************************************)
(* Two deploy runs side by side                                            *)
(*                                                                         *)
(* Two processes run deploy() for the same configuration.  Each has its    *)
(* own variables; the directories are shared.  One of the two is the one   *)
(* the variables show, the other is kept in `suspended`; at every await    *)
(* the system may let the other one run.  Both have validated the system   *)
(* and captured their configuration.                                       *)
(***************************************************************************)
\* what a run holds of its own
Context ==
    [pc |-> pc, exitCode |-> exitCode, systemChecks |-> systemChecks,
     rawConfig |-> rawConfig, promptError |-> promptError,
     processedConfig |-> processedConfig,
     validationErrors |-> validationErrors, configErrors |-> configErrors,
     probeResult |-> probeResult, rollbackNeeded |-> rollbackNeeded,
     siteConfigPath |-> siteConfigPath, pendingError |-> pendingError,
     handledError |-> handledError, summary |-> summary,
     applyResult |-> applyResult, returned |-> returned,
     configContent |-> configContent, cmds |-> cmds, steps |-> steps,
     log |-> log]

OtherRun(run) == IF run = 1 THEN 2 ELSE 1

\* the configurations the two runs are given
ConcurrentConfigs ==
    { [projectName |-> name, domainName |-> <<"a", ".", "b">>,
       portNumber |-> 3101] : name \in { <<"a">>, <<"A", "_", "b">> } }

ConcurrentInit ==
    /\ command = "deploy"
    /\ options = <<>>
    /\ pc = "processConfiguration"
    /\ exitCode = 0
    /\ isRoot = FALSE
    /\ systemChecks =
           [checked |-> TRUE, nginx |-> TRUE,
            availableSpace |->
                getAvailableDiskSpace(DfLine(<<" ", "4", "0", "9", "6">>)),
            nginxRunning |-> TRUE]
    /\ deployerCertbotAvailable = FALSE
    /\ sitesAvailable \in SUBSET SiteIds
    /\ sitesEnabled \in SUBSET SiteIds
    /\ initAvailable = sitesAvailable
    /\ initEnabled = sitesEnabled
    /\ linkTargets = { LinkTo(id, getConfigPath(id)) : id \in sitesEnabled }
    /\ rawConfig \in ConcurrentConfigs
    /\ promptError = ""
    /\ processedConfig = NoConfig
    /\ validationErrors = <<>>
    /\ configErrors = <<>>
    /\ probeResult = "none"
    /\ rollbackNeeded = FALSE
    /\ siteConfigPath = NoPath
    /\ pendingError = NoError
    /\ handledError = NoError
    /\ summary = NoSummary
    /\ applyResult = NoResult
    /\ returned = <<>>
    /\ configContent = <<>>
    /\ cmds = <<>>
    /\ steps = <<Step("SystemValidated", TRUE), Step("ConfigCaptured", TRUE)>>
    /\ log = <<>>
    /\ suspended = [present |-> TRUE, run |-> 2, context |-> Context]

\* variant: a run between its existence check and its end keeps the other
\* one waiting
Switch_Locked ==
    /\ command = "deploy"
    /\ suspended.present
    /\ suspended.context.pc # "exited"
    /\ pc \in {"processConfiguration", "confirmDeployment",
               "handleExistingSite", "exited"}
    /\ pc' = suspended.context.pc
    /\ exitCode' = suspended.context.exitCode
    /\ systemChecks' = suspended.context.systemChecks
    /\ rawConfig' = suspended.context.rawConfig
    /\ promptError' = suspended.context.promptError
    /\ processedConfig' = suspended.context.processedConfig
    /\ validationErrors' = suspended.context.validationErrors
    /\ configErrors' = suspended.context.configErrors
    /\ probeResult' = suspended.context.probeResult
    /\ rollbackNeeded' = suspended.context.rollbackNeeded
    /\ siteConfigPath' = suspended.context.siteConfigPath
    /\ pendingError' = suspended.context.pendingError
    /\ handledError' = suspended.context.handledError
    /\ summary' = suspended.context.summary
    /\ applyResult' = suspended.context.applyResult
    /\ returned' = suspended.context.returned
    /\ configContent' = suspended.context.configContent
    /\ cmds' = suspended.context.cmds
    /\ steps' = suspended.context.steps
    /\ log' = suspended.context.log
    /\ suspended' = [present |-> TRUE, run |-> OtherRun(suspended.run),
                     context |-> Context]
    /\ UNCHANGED <<command, options, isRoot, initAvailable, initEnabled, fs,
                   deployerCertbotAvailable>>

\* the run that was waiting goes on, the one that was running waits: the
\* processes are scheduled by the system, nothing in deploy() holds one back
Switch ==
    /\ command = "deploy"
    /\ suspended.present
    /\ suspended.context.pc # "exited"
    /\ pc' = suspended.context.pc
    /\ exitCode' = suspended.context.exitCode
    /\ systemChecks' = suspended.context.systemChecks
    /\ rawConfig' = suspended.context.rawConfig
    /\ promptError' = suspended.context.promptError
    /\ processedConfig' = suspended.context.processedConfig
    /\ validationErrors' = suspended.context.validationErrors
    /\ configErrors' = suspended.context.configErrors
    /\ probeResult' = suspended.context.probeResult
    /\ rollbackNeeded' = suspended.context.rollbackNeeded
    /\ siteConfigPath' = suspended.context.siteConfigPath
    /\ pendingError' = suspended.context.pendingError
    /\ handledError' = suspended.context.handledError
    /\ summary' = suspended.context.summary
    /\ applyResult' = suspended.context.applyResult
    /\ returned' = suspended.context.returned
    /\ configContent' = suspended.context.configContent
    /\ cmds' = suspended.context.cmds
    /\ steps' = suspended.context.steps
    /\ log' = suspended.context.log
    /\ suspended' = [present |-> TRUE, run |-> OtherRun(suspended.run),
                     context |-> Context]
    /\ UNCHANGED <<command, options, isRoot, initAvailable, initEnabled, fs,
                   deployerCertbotAvailable>>

\* a step of the run that is running
ConcurrentStep ==
    \/ ProcessConfiguration
    \/ ConfirmDeployment
    \/ HandleExistingSite
    \/ CreateConfiguration
    \/ EnableSite
    \/ TestConfiguration
    \/ ReloadNginx
    \/ RollbackDisable
    \/ RollbackRemove
    \/ IsCertbotAvailable
    \/ ConfirmSSLSetup
    \/ SetupSSLWithAutoEmail

ConcurrentNext ==
    \/ ProcessConfiguration
    \/ ConfirmDeployment
    \/ HandleExistingSite
    \/ CreateConfiguration
    \/ EnableSite
    \/ TestConfiguration
    \/ ReloadNginx
    \/ RollbackDisable
    \/ RollbackRemove
    \/ IsCertbotAvailable
    \/ ConfirmSSLSetup
    \/ SetupSSLWithAutoEmail
    \/ Switch

ConcurrentSpec == ConcurrentInit /\ [][ConcurrentNext]_vars

(***************************************************************************)
(* One raw project name resolved by deploy and by remove                   *)
(***************************************************************************)
\* the raw names validateProjectName accepts
AcceptedProjectNames ==
    { raw \in RawIdentifiers : validateProjectName(raw) = <<>> }

ResolveInit ==
    /\ FunctionInit("resolve", "start")
    /\ rawConfig \in { [NoRawConfig EXCEPT !.projectName = raw] :
                          raw \in AcceptedProjectNames }

\* deploy: processAndValidateConfig's cleanProjectName and the paths
\* executeDeployment works on
ResolveForDeploy ==
    /\ command = "resolve"
    /\ pc = "start"
    /\ processedConfig' =
           [NoConfig EXCEPT
               !.projectName = rawConfig.projectName,
               !.cleanProjectName = sanitizeProjectName(rawConfig.projectName)]
    /\ siteConfigPath' = getConfigPath(sanitizeProjectName(rawConfig.projectName))
    /\ pc' = "deployResolved"
    /\ UNCHANGED <<env, sys, fs, input, validationErrors, configErrors,
                   probeResult, rollbackNeeded, pendingError, out, exitCode,
                   handledError, log, cmds, steps>>

\* remove <name>: removeSite's cleanProjectName for the same raw name
ResolveForRemove ==
    /\ command = "resolve"
    /\ pc = "deployResolved"
    /\ returned' = removeSiteCleanProjectName(rawConfig.projectName)
    /\ pc' = "removeResolved"
    /\ UNCHANGED <<env, sys, fs, input, valid, exec, summary, applyResult,
                   configContent, exitCode, handledError, log, cmds, steps>>

ResolveNext == ResolveForDeploy \/ ResolveForRemove

ResolveSpec == ResolveInit /\ [][ResolveNext]_vars

(***************************************************************************)
(* NginxSiteDeployer (index.ts): the single-file deployer                  *)
(***************************************************************************)
\* NginxSiteDeployer.sanitizeProjectName:
\* name.replace(/[^a-zA-Z0-9-]/g, '-').toLowerCase()
deployerSanitizeProjectName(name) ==
    toLowerCase([i \in 1..Len(name) |->
                    IF name[i] \in AlnumChars \cup {"-"} THEN name[i] ELSE "-"])

\* NginxSiteDeployer.generateNginxConfig: the text of
\* NginxService.generateConfiguration, its sizes and timeouts written out
deployerGenerateNginxConfig(config, cleanProjectName) ==
    generateConfiguration(
        [projectName |-> config.projectName,
         domainName |-> config.domainName,
         portNumber |-> config.portNumber,
         cleanProjectName |-> cleanProjectName,
         upstreamName |-> cleanProjectName \o <<"_", "p", "r", "o", "d">>])

\* the validators of getUserInput's prompts
deployerValidateRequired(answer, message) ==
    IF trim(answer) = <<>> THEN message ELSE "ok"

deployerValidatePort(answer) ==
    LET port == parseInt(answer)
    IN  IF port.isNaN THEN "Port must be a number"
        ELSE IF port.value < 1 \/ port.value > 65535
        THEN "Port must be between 1 and 65535"
        ELSE "ok"

\* NginxSiteDeployer.checkSiteExists: access(siteConfig, F_OK)
checkSiteExists(files, cleanProjectName) == cleanProjectName \in files

\* what the operator may type at the three prompts
DeployerNameAnswers == { <<"a">>, <<"A", "_", "b">>, <<"a", "!">>, <<" ">> }

DeployerDomainAnswers == { <<"a", ".", "b">>, <<>> }

DeployerPortAnswers ==
    { <<"3", "1", "0", "1">>, <<"8", "0">>, <<"0">>, <<"x">> }

DeployerInit ==
    /\ command = "index"
    /\ options = <<>>
    /\ pc = "checkDependencies"
    /\ exitCode = 0
    /\ isRoot \in BOOLEAN
    /\ systemChecks = NoSystemChecks
    /\ deployerCertbotAvailable = FALSE
    /\ sitesAvailable \in SUBSET SiteIds
    /\ sitesEnabled \in SUBSET SiteIds
    /\ initAvailable = sitesAvailable
    /\ initEnabled = sitesEnabled
    /\ linkTargets = { LinkTo(id, getConfigPath(id)) : id \in sitesEnabled }
    /\ rawConfig = NoRawConfig
    /\ promptError = ""
    /\ processedConfig = NoConfig
    /\ validationErrors = <<>>
    /\ configErrors = <<>>
    /\ probeResult = "none"
    /\ rollbackNeeded = FALSE
    /\ siteConfigPath = NoPath
    /\ pendingError = NoError
    /\ handledError = NoError
    /\ summary = NoSummary
    /\ applyResult = NoResult
    /\ returned = <<>>
    /\ configContent = <<>>
    /\ suspended = NoRun
    /\ cmds = <<>>
    /\ steps = <<>>
    /\ log = <<>>

\* the constructor: checkDependencies, with checkRootUser first
DeployerCheckDependencies ==
    /\ command = "index"
    /\ pc = "checkDependencies"
    /\ \E nginx \in BOOLEAN, certbot \in BOOLEAN :
          IF isRoot
          THEN /\ Exit(1, log \o <<"This script should not be run as root">>)
               /\ UNCHANGED deployerCertbotAvailable
          ELSE IF ~nginx
          THEN /\ Exit(1, log \o <<"Nginx is not installed">>)
               /\ UNCHANGED deployerCertbotAvailable
          ELSE /\ deployerCertbotAvailable' = certbot
               /\ Goto("getProjectName",
                       log \o (IF certbot THEN <<>>
                               ELSE <<"Certbot is not installed">>))
    /\ UNCHANGED <<env, systemChecks, fs, input, valid, exec, out, cmds, steps>>

\* getUserInput: the project name prompt; the answer is kept as typed
DeployerPromptProjectName ==
    /\ command = "index"
    /\ pc = "getProjectName"
    /\ \E answer \in DeployerNameAnswers :
          LET verdict == deployerValidateRequired(answer,
                                                  "Project name is required")
          IN  IF verdict # "ok"
              THEN /\ promptError' = verdict
                   /\ UNCHANGED <<rawConfig, ctl>>
              ELSE /\ rawConfig' = [rawConfig EXCEPT !.projectName = answer]
                   /\ promptError' = ""
                   /\ Goto("getDomainName", log)
    /\ UNCHANGED <<env, sys, fs, valid, exec, out, cmds, steps>>

\* getUserInput: the domain name prompt
DeployerPromptDomainName ==
    /\ command = "index"
    /\ pc = "getDomainName"
    /\ \E answer \in DeployerDomainAnswers :
          LET verdict == deployerValidateRequired(answer,
                                                  "Domain name is required")
          IN  IF verdict # "ok"
              THEN /\ promptError' = verdict
                   /\ UNCHANGED <<rawConfig, ctl>>
              ELSE /\ rawConfig' = [rawConfig EXCEPT !.domainName = answer]
                   /\ promptError' = ""
                   /\ Goto("getPortNumber", log)
    /\ UNCHANGED <<env, sys, fs, valid, exec, out, cmds, steps>>

\* getUserInput: the port prompt; then deploy() sanitizes the project name
\* and prints the settings
DeployerPromptPortNumber ==
    /\ command = "index"
    /\ pc = "getPortNumber"
    /\ \E answer \in DeployerPortAnswers :
          LET verdict == deployerValidatePort(answer)
              cleanProjectName ==
                  deployerSanitizeProjectName(rawConfig.projectName)
          IN  IF verdict # "ok"
              THEN /\ promptError' = verdict
                   /\ UNCHANGED <<rawConfig, processedConfig, ctl>>
              ELSE /\ rawConfig' =
                          [rawConfig EXCEPT !.portNumber = parseInt(answer).value]
                   /\ promptError' = ""
                   /\ processedConfig' =
                          [projectName |-> rawConfig.projectName,
                           domainName |-> rawConfig.domainName,
                           portNumber |-> parseInt(answer).value,
                           cleanProjectName |-> cleanProjectName,
                           upstreamName |->
                               cleanProjectName \o <<"_", "p", "r", "o", "d">>]
                   /\ Goto("confirm", log)
    /\ UNCHANGED <<env, sys, fs, validationErrors, configErrors, probeResult,
                   exec, out, cmds, steps>>

\* deploy(): 'Continue with these settings?'
DeployerConfirm ==
    /\ command = "index"
    /\ pc = "confirm"
    /\ \E confirm \in BOOLEAN :
          IF confirm
          THEN Goto("checkSiteExists", log)
          ELSE Exit(0, log \o <<"Deployment cancelled.">>)
    /\ UNCHANGED <<env, sys, fs, input, valid, exec, out, cmds, steps>>

\* deploy(): checkSiteExists and 'Overwrite existing configuration?'
DeployerCheckSiteExists ==
    /\ command = "index"
    /\ pc = "checkSiteExists"
    /\ IF checkSiteExists(sitesAvailable, processedConfig.cleanProjectName)
       THEN \E overwrite \in BOOLEAN :
               IF overwrite
               THEN Goto("createNginxConfig",
                         log \o <<"Site configuration already exists">>)
               ELSE Exit(0, log \o <<"Site configuration already exists",
                                     "Deployment cancelled.">>)
       ELSE Goto("createNginxConfig", log)
    /\ UNCHANGED <<env, sys, fs, input, valid, exec, out, cmds, steps>>

\* createNginxConfig: a failed write is rethrown to the outer catch of
\* deploy(), which exits with status 1
DeployerCreateNginxConfig ==
    /\ command = "index"
    /\ pc = "createNginxConfig"
    /\ \E ok \in BOOLEAN :
          LET path == getConfigPath(processedConfig.cleanProjectName)
          IN  /\ cmds' = Append(cmds, Command("write", path, ok))
              /\ configContent' =
                     deployerGenerateNginxConfig(rawConfig,
                                                 processedConfig.cleanProjectName)
              /\ sitesAvailable' = writeFileWithSudo(sitesAvailable, path, ok)
              /\ steps' = Append(steps, Step("ConfigWritten", ok))
              /\ IF ok
                 THEN /\ siteConfigPath' = path
                      /\ Goto("deployerEnableSite", log)
                 ELSE /\ UNCHANGED siteConfigPath
                      /\ Exit(1, log \o <<"Failed to create configuration",
                                          "Deployment failed">>)
    /\ UNCHANGED <<env, sys, sitesEnabled, linkTargets, input, valid,
                   rollbackNeeded, pendingError, summary, applyResult, returned>>

\* enableSite inside the inner try of deploy()
DeployerEnableSite ==
    /\ command = "index"
    /\ pc = "deployerEnableSite"
    /\ \E ok \in BOOLEAN :
          LET path == getEnabledPath(processedConfig.cleanProjectName)
          IN  /\ cmds' = Append(cmds, Command("link", path, ok))
              /\ sitesEnabled' = createSymlinkWithSudo(sitesEnabled, path, ok)
              /\ linkTargets' =
                     createSymlinkTarget(linkTargets,
                         getConfigPath(processedConfig.cleanProjectName), path, ok)
              /\ steps' = Append(steps, Step("SiteEnabled", ok))
              /\ IF ok
                 THEN Goto("testNginxConfig", log)
                 ELSE Goto("rollbackLink",
                           log \o <<"Failed to enable site",
                                    "Rolling back changes...">>)
    /\ UNCHANGED <<env, sys, sitesAvailable, input, valid, exec, out>>

\* testNginxConfig
DeployerTestNginxConfig ==
    /\ command = "index"
    /\ pc = "testNginxConfig"
    /\ \E ok \in BOOLEAN :
          /\ cmds' = Append(cmds, Command("test", NoPath, ok))
          /\ steps' = Append(steps, Step("ConfigTested", ok))
          /\ IF ok
             THEN Goto("deployerReloadNginx", log)
             ELSE Goto("rollbackLink",
                       log \o <<"Nginx configuration test failed!",
                                "Rolling back changes...">>)
    /\ UNCHANGED <<env, sys, fs, input, valid, exec, out>>

\* reloadNginx
DeployerReloadNginx ==
    /\ command = "index"
    /\ pc = "deployerReloadNginx"
    /\ \E ok \in BOOLEAN :
          /\ cmds' = Append(cmds, Command("reload", NoPath, ok))
          /\ steps' = Append(steps, Step("Reloaded", ok))
          /\ IF ok
             THEN Goto("setupSSL", log)
             ELSE Goto("rollbackLink",
                       log \o <<"Failed to reload nginx!",
                                "Rolling back changes...">>)
    /\ UNCHANGED <<env, sys, fs, input, valid, exec, out>>

\* setupSSL up to its prompt; without certbot, or on a no, printSummary
\* follows and deploy() returns
DeployerSetupSSL ==
    /\ command = "index"
    /\ pc = "setupSSL"
    /\ IF ~deployerCertbotAvailable
       THEN /\ Exit(0, log \o <<"Certbot not available",
                                "Deployment completed successfully!">>)
            /\ steps' = Append(steps, Step("Complete", TRUE))
       ELSE \E setupSSL \in BOOLEAN :
               IF setupSSL
               THEN Goto("certbot", log) /\ UNCHANGED steps
               ELSE /\ Exit(0, log \o <<"SSL setup skipped",
                                        "Deployment completed successfully!">>)
                    /\ steps' = Append(steps, Step("Complete", TRUE))
    /\ UNCHANGED <<env, sys, fs, input, valid, exec, out, cmds>>

\* setupSSL: certbot; its failure is a warning, and printSummary follows
DeployerCertbot ==
    /\ command = "index"
    /\ pc = "certbot"
    /\ \E ok \in BOOLEAN :
          /\ cmds' = Append(cmds, Command("certbot", NoPath, ok))
          /\ steps' = Append(steps, Step("Complete", TRUE))
          /\ Exit(0, log \o <<IF ok THEN "SSL certificate setup completed"
                                    ELSE "SSL setup failed or was cancelled",
                              "Deployment completed successfully!">>)
    /\ UNCHANGED <<env, sys, fs, input, valid, exec, out>>

\* rollbackChanges: `sudo rm -f` of the link; when it throws, the catch block
\* logs and the definition is not deleted; process.exit(1) follows
DeployerRollbackLink ==
    /\ command = "index"
    /\ pc = "rollbackLink"
    /\ \E ok \in BOOLEAN :
          LET path == getEnabledPath(processedConfig.cleanProjectName)
          IN  /\ cmds' = Append(cmds, Command("rm", path, ok))
              /\ sitesEnabled' =
                     removeFileWithSudo(sitesEnabled, "sites-enabled", path, ok)
              /\ linkTargets' = removeLinkTarget(linkTargets, path, ok)
              /\ IF ok
                 THEN Goto("rollbackConfig", log)
                 ELSE Exit(1, log \o <<"Failed to rollback">>)
    /\ UNCHANGED <<env, sys, sitesAvailable, input, valid, exec, out, steps>>

\* variant: a definition that existed before the run is not deleted
DeployerRollbackConfig_KeepsExisting ==
    /\ command = "index"
    /\ pc = "rollbackConfig"
    /\ IF siteConfigPath.name \in initAvailable
       THEN /\ Exit(1, log)
            /\ UNCHANGED <<cmds, sitesAvailable>>
       ELSE \E ok \in BOOLEAN :
               /\ cmds' = Append(cmds, Command("rm", siteConfigPath, ok))
               /\ sitesAvailable' =
                      removeFileWithSudo(sitesAvailable, "sites-available",
                                         siteConfigPath, ok)
               /\ Exit(1, log \o (IF ok THEN <<>>
                                  ELSE <<"Failed to rollback">>))
    /\ UNCHANGED <<env, sys, sitesEnabled, linkTargets, input, valid, exec, out,
                   steps>>

\* rollbackChanges: `sudo rm -f` of the definition, then process.exit(1)
DeployerRollbackConfig ==
    /\ command = "index"
    /\ pc = "rollbackConfig"
    /\ \E ok \in BOOLEAN :
          /\ cmds' = Append(cmds, Command("rm", siteConfigPath, ok))
          /\ sitesAvailable' =
                 removeFileWithSudo(sitesAvailable, "sites-available",
                                    siteConfigPath, ok)
          /\ Exit(1, log \o (IF ok THEN <<>> ELSE <<"Failed to rollback">>))
    /\ UNCHANGED <<env, sys, sitesEnabled, linkTargets, input, valid, exec, out,
                   steps>>

\* no handler is installed: SIGINT or SIGTERM ends the process where it is
DeployerInterrupt ==
    /\ command = "index"
    /\ pc \notin {"exited", "checkDependencies"}
    /\ \E signal \in Signals : Exit(signalExitCode(signal), log)
    /\ UNCHANGED <<env, sys, fs, input, valid, exec, out, cmds, steps>>

DeployerNext ==
    \/ DeployerCheckDependencies
    \/ DeployerPromptProjectName
    \/ DeployerPromptDomainName
    \/ DeployerPromptPortNumber
    \/ DeployerConfirm
    \/ DeployerCheckSiteExists
    \/ DeployerCreateNginxConfig
    \/ DeployerEnableSite
    \/ DeployerTestNginxConfig
    \/ DeployerReloadNginx
    \/ DeployerSetupSSL
    \/ DeployerCertbot
    \/ DeployerRollbackLink
    \/ DeployerRollbackConfig
    \/ DeployerInterrupt

DeployerSpec == DeployerInit /\ [][DeployerNext]_vars

(***************************************************************************)
(* Vocabulary of the properties                                            *)
(***************************************************************************)
Id == processedConfig.cleanProjectName

RunEnded == pc = "exited"
Interrupted == RunEnded /\ exitCode \in {signalExitCode(sig) : sig \in Signals}
EndedWithFailure == RunEnded /\ exitCode = 1

Issued(c) == \E i \in DOMAIN cmds : cmds[i].cmd = c
Succeeded(c) == \E i \in DOMAIN cmds : cmds[i].cmd = c /\ cmds[i].ok
IssuedOn(c, path) ==
    \E i \in DOMAIN cmds : cmds[i].cmd = c /\ cmds[i].path = path
FailedOn(c, path) ==
    \E i \in DOMAIN cmds : cmds[i].cmd = c /\ cmds[i].path = path /\ ~cmds[i].ok

StepFailed(name) == \E i \in DOMAIN steps : steps[i] = Step(name, FALSE)
StepDone(name) == \E i \in DOMAIN steps : steps[i] = Step(name, TRUE)

\* enable, test or reload failed
CommitStageFailed ==
    StepFailed("SiteEnabled") \/ StepFailed("ConfigTested") \/ StepFailed("Reloaded")

\* every removal command rollback issued succeeded
RemovalsSucceeded == \A i \in DOMAIN cmds : cmds[i].cmd = "rm" => cmds[i].ok

Logged(line) == \E i \in DOMAIN log : log[i] = line

DefinitionPresent == Id \in sitesAvailable
LinkPresent == Id \in sitesEnabled
FullActivation == DefinitionPresent /\ LinkPresent /\ Succeeded("reload")
FullReversal == ~DefinitionPresent /\ ~LinkPresent

NothingTouched ==
    /\ cmds = <<>>
    /\ sitesAvailable = initAvailable
    /\ sitesEnabled = initEnabled

C3_ExistingSiteIsNotAFailure ==
    (RunEnded /\ ~Interrupted /\ validationErrors = <<"SITE_EXISTS">>
        /\ Id \in initAvailable)
        => (exitCode = 0 /\ handledError = NoError)

(***************************************************************************)
(* C4                                                                      *)
(***************************************************************************)
\* C4: rollback issues the link removal before the definition deletion, and
\* a run that ended with a failed enable, test or reload has issued both,
\* the deletion also when the link removal failed.
C4_RollbackOrder ==
    /\ \A j \in DOMAIN cmds :
          (cmds[j].cmd = "rm" /\ cmds[j].path = getConfigPath(Id))
              => \E i \in 1..(j - 1) :
                    cmds[i].cmd = "rm" /\ cmds[i].path = getEnabledPath(Id)
    /\ (EndedWithFailure /\ CommitStageFailed)
          => /\ IssuedOn("rm", getEnabledPath(Id))
             /\ IssuedOn("rm", getConfigPath(Id))

\* the link removal failed and the definition deletion was issued all the same
C4_Witness ==
    /\ EndedWithFailure
    /\ FailedOn("rm", getEnabledPath(Id))
    /\ IssuedOn("rm", getConfigPath(Id))

(***************************************************************************)
(* C5                                                                      *)
(***************************************************************************)
\* the error code of the step that failed
FailedStepCode ==
    IF StepFailed("SiteEnabled") THEN "SITE_ENABLE_FAILED"
    ELSE IF StepFailed("ConfigTested") THEN "CONFIG_TEST_FAILED"
    ELSE IF StepFailed("Reloaded") THEN "NGINX_RELOAD_FAILED"
    ELSE "none"

SystemRequirementBroken ==
    /\ systemChecks.checked
    /\ \/ isRoot
       \/ ~systemChecks.nginx
       \/ jsLessThan(systemChecks.availableSpace, requiredSpace)
       \/ ~systemChecks.nginxRunning

\* C6: when system validation fails, the run has ended with exit status 1 and
\* no command was issued: nothing was written, linked, tested, reloaded,
\* issued or removed.
C6_SystemFailureTouchesNothing ==
    SystemRequirementBroken
        => /\ EndedWithFailure
           /\ handledError.code = "SYSTEM_VALIDATION_FAILED"
           /\ NothingTouched
           /\ steps = <<Step("SystemValidated", FALSE)>>

\* too little disk space, everything else in order
C6_Witness ==
    /\ systemChecks.checked
    /\ ~isRoot
    /\ systemChecks.nginx
    /\ systemChecks.nginxRunning
    /\ jsLessThan(systemChecks.availableSpace, requiredSpace)
    /\ EndedWithFailure

C8_WriteOnlyWhenBackendLive ==
    /\ Issued("write") => probeResult = "listening"
    /\ probeResult \in {"notListening", "throws"}
          => /\ EndedWithFailure
             /\ NothingTouched

\* the probe itself failed and the run was blocked
C8_Witness ==
    /\ probeResult = "throws"
    /\ EndedWithFailure
    /\ handledError.code = "CONFIG_VALIDATION_FAILED"

(***************************************************************************)
(* C9                                                                      *)
(***************************************************************************)
StepOrder ==
    <<{"SystemValidated"}, {"ConfigCaptured"}, {"ConfigValidated"},
      {"ConfigWritten"}, {"SiteEnabled"}, {"ConfigTested"}, {"Reloaded"},
      {"Certified", "CertSkipped"}, {"Complete"}>>

CommandOrder == <<"write", "link", "test", "reload">>

Position(c) == CHOOSE i \in DOMAIN cmds : cmds[i].cmd = c

\* C9: the steps of a deploy run occur in the fixed order, each after its
\* predecessor succeeded, and write, link, test and reload are each issued
\* at most once, in that order, each after the one before it succeeded.
C9_StrictOrderNoRetry ==
    command = "deploy" =>
        /\ Len(steps) <= Len(StepOrder)
        /\ \A i \in DOMAIN steps : steps[i].step \in StepOrder[i]
        /\ \A i \in DOMAIN steps : i < Len(steps) => steps[i].ok
        /\ \A k \in DOMAIN CommandOrder :
              Cardinality({i \in DOMAIN cmds : cmds[i].cmd = CommandOrder[k]}) <= 1
        /\ \A k \in 2..Len(CommandOrder) :
              Issued(CommandOrder[k])
                  => /\ Succeeded(CommandOrder[k - 1])
                     /\ Position(CommandOrder[k - 1]) < Position(CommandOrder[k])

\* a run that went through every step up to the summary, certified
C9_Witness ==
    /\ RunEnded
    /\ exitCode = 0
    /\ Len(steps) = Len(StepOrder)
    /\ StepDone("Certified")
    /\ StepDone("Complete")

(***************************************************************************)
(* C10                                                                     *)
(***************************************************************************)
\* C10: in deploy and in validateAndApply a reload is issued only after a
\* successful daemon test earlier in the same operation, and never after a
\* failed test.
C10_FailedTestBlocksReload ==
    command \in {"deploy", "validateAndApply"} =>
        /\ \A j \in DOMAIN cmds :
              cmds[j].cmd = "reload"
                  => \E i \in 1..(j - 1) : cmds[i].cmd = "test" /\ cmds[i].ok
        /\ (\E i \in DOMAIN cmds : cmds[i].cmd = "test" /\ ~cmds[i].ok)
              => ~Issued("reload")

\* validateAndApply returned after a failed test, no reload issued
C10_Witness ==
    /\ command = "validateAndApply"
    /\ pc = "returned"
    /\ \E i \in DOMAIN cmds : cmds[i].cmd = "test" /\ ~cmds[i].ok
    /\ ~Issued("reload")
    /\ ~applyResult.success

(***************************************************************************)
(* C11                                                                     *)
(***************************************************************************)
\* the run is in, or has been through, setupSSL
CertificationStage ==
    \/ pc \in {"isCertbotAvailable", "confirmSSLSetup", "setupSSLWithAutoEmail"}
    \/ Issued("certbot")
    \/ StepDone("CertSkipped")
    \/ StepDone("Certified")

ToolMissing == Logged("Certbot not available - SSL setup skipped")
Declined == Logged("SSL setup skipped by user")
IssuanceFailed == Issued("certbot") /\ ~Succeeded("certbot")
SuccessReported == Logged("Deployment completed successfully!")

\* C11: certification is reached only after a successful reload and issues
\* no removal: the definition and the link stay present; when the tool is
\* missing, the operator declines or issuance fails, the run has ended with
\* exit status 0, the summary and the Complete step.
C11_CertificationNeverReverts ==
    command = "deploy" =>
        /\ CertificationStage
              => /\ Succeeded("reload")
                 /\ ~Issued("rm")
                 /\ DefinitionPresent
                 /\ LinkPresent
        /\ Issued("certbot") => Position("reload") < Position("certbot")
        /\ (ToolMissing \/ Declined \/ IssuanceFailed)
              => /\ RunEnded
                 /\ exitCode = 0
                 /\ handledError = NoError
                 /\ summary.produced
                 /\ StepDone("Complete")
                 /\ SuccessReported

\* issuance was attempted and failed; the site is still live, the run complete
C11_Witness ==
    /\ IssuanceFailed
    /\ RunEnded
    /\ exitCode = 0
    /\ DefinitionPresent
    /\ LinkPresent
    /\ ~Issued("rm")
    /\ SuccessReported

(***************************************************************************)
(* C12                                                                     *)
(***************************************************************************)
Completed == RunEnded /\ StepDone("Complete")

\* C12: in the summary of a completed run sslEnabled is true exactly when the
\* tool was there, the operator accepted and issuance succeeded; exactly one
\* of missing tool, decline, failed issuance, successful issuance happened.
C12_CertificateEnabledExactly ==
    Completed
        => /\ summary.produced
           /\ summary.sslEnabled
                 <=> (~ToolMissing /\ ~Declined /\ Succeeded("certbot"))
           /\ (ToolMissing \/ Declined \/ IssuanceFailed) => ~summary.sslEnabled
           /\ Cardinality({o \in {"missing", "declined", "failed", "issued"} :
                  \/ o = "missing" /\ ToolMissing
                  \/ o = "declined" /\ Declined
                  \/ o = "failed" /\ IssuanceFailed
                  \/ o = "issued" /\ Succeeded("certbot")}) = 1

\* a completed run whose summary says the certificate is enabled
C12_Witness ==
    /\ Completed
    /\ summary.sslEnabled
    /\ Succeeded("certbot")
    /\ ~ToolMissing
    /\ ~Declined

(***************************************************************************)
(* C13                                                                     *)
(***************************************************************************)
MandatoryStepFailed == StepFailed("ConfigWritten") \/ CommitStageFailed

\* C13: a summary exists, and success is reported, only when write, enable,
\* test and reload all succeeded; after a failed mandatory step there is no
\* summary, no success line, no certification, and the run that is not cut
\* short by a signal ends with exit status 1 and the error of that step.
C13_SummaryOnlyAfterAllSteps ==
    command = "deploy" =>
        /\ summary.produced
              => /\ Succeeded("write") /\ Succeeded("link")
                 /\ Succeeded("test") /\ Succeeded("reload")
        /\ SuccessReported => summary.produced
        /\ MandatoryStepFailed
              => /\ ~summary.produced
                 /\ ~SuccessReported
                 /\ ~CertificationStage
                 /\ ~StepDone("Complete")
                 /\ (RunEnded /\ ~Interrupted)
                       => /\ exitCode = 1
                          /\ handledError.name = "DeploymentError"
                          /\ handledError.code \in
                                {"CONFIG_CREATION_FAILED", "SITE_ENABLE_FAILED",
                                 "CONFIG_TEST_FAILED", "NGINX_RELOAD_FAILED"}

\* the daemon test failed after write and enable: the report is the failure
C13_Witness ==
    /\ EndedWithFailure
    /\ Succeeded("write")
    /\ Succeeded("link")
    /\ StepFailed("ConfigTested")
    /\ handledError.code = "CONFIG_TEST_FAILED"
    /\ ~summary.produced
    /\ ~SuccessReported

(***************************************************************************)
(* C14                                                                     *)
(***************************************************************************)
\* the ways a deploy run ends: complete, cancelled by the operator, failed
\* (after a failed enable, test or reload with both rollback removals
\* issued), or cut short by a signal
TerminalOutcome ==
    \/ Completed /\ exitCode = 0
    \/ exitCode = 0 /\ Logged("Deployment cancelled by user") /\ cmds = <<>>
    \/ /\ exitCode = 1
       /\ handledError # NoError
       /\ CommitStageFailed
             => /\ IssuedOn("rm", getEnabledPath(Id))
                /\ IssuedOn("rm", getConfigPath(Id))
    \/ Interrupted

\* C14: every deploy run ends, in one of the terminal outcomes, whatever
\* steps and rollback removals fail, provided every external call returns.
C14_DeployTerminates ==
    (command = "deploy") ~> (RunEnded /\ TerminalOutcome)

\* a run that ended although both removals of its rollback failed
C14_Witness ==
    /\ command = "deploy"
    /\ RunEnded
    /\ exitCode = 1
    /\ FailedOn("rm", getEnabledPath(Id))
    /\ FailedOn("rm", getConfigPath(Id))

(***************************************************************************)
(* C15                                                                     *)
(***************************************************************************)
SignalReceived == \E signal \in Signals : Logged(signal)

\* C15: once a signal was received the process has exited, with status 130
\* for SIGINT and 143 for SIGTERM; the step that exits on the signal issues
\* no command, takes no pipeline step and leaves the definitions and links
\* alone, and no step is taken from an exited process.
C15_SignalExitsAtOnce ==
    /\ [](SignalReceived
            => /\ RunEnded
               /\ log[Len(log)] \in Signals
               /\ exitCode = signalExitCode(log[Len(log)]))
    /\ [][/\ pc # "exited"
          /\ (pc' = "exited" /\ exitCode' \in {130, 143})
                => /\ log' = Append(log, log'[Len(log')])
                   /\ log'[Len(log')] \in Signals
                   /\ UNCHANGED <<cmds, steps, sitesAvailable, sitesEnabled,
                                  handledError>>]_vars

\* a signal in the middle of rollback: the link removal was issued, the
\* definition deletion never is
C15_Witness ==
    /\ command = "deploy"
    /\ Interrupted
    /\ SignalReceived
    /\ IssuedOn("rm", getEnabledPath(Id))
    /\ ~IssuedOn("rm", getConfigPath(Id))
    /\ DefinitionPresent

(***************************************************************************)
(* C16                                                                     *)
(***************************************************************************)
AnyStepFailed == \E i \in DOMAIN steps : ~steps[i].ok

\* C16: a run that ended has status 130/143 exactly after a signal; without a
\* signal it has status 1 after a failed deploy step, an unknown command, a
\* `remove` without a name, a `remove` of a site that does not exist or a
\* failed removal, and status 0 otherwise.
C16_ExitStatus ==
    RunEnded =>
        /\ Interrupted <=> SignalReceived
        /\ ~Interrupted =>
              /\ exitCode \in {0, 1}
              /\ exitCode = 1 <=>
                    \/ command = "deploy" /\ AnyStepFailed
                    \/ command = "bogus"
                    \/ command = "remove" /\ options = <<>>
                    \/ command = "remove" /\ Logged("Site does not exist")
                    \/ command = "remove" /\ ~RemovalsSucceeded

(***************************************************************************)
(* C17                                                                     *)
(***************************************************************************)
\* the definition of the identifier this deploy run works on existed when
\* the run started
DefinitionExisted ==
    command = "deploy" /\ processedConfig # NoConfig /\ Id \in initAvailable

ConsentGiven == Logged("Will overwrite existing configuration")

\* C17: a deploy run for an identifier whose definition already exists, in
\* which the operator did not consent to overwrite, issues no command on the
\* definition or the link of that identifier and leaves both as they were;
\* such a run never completes.
C17_NoOverwriteWithoutConsent ==
    (DefinitionExisted /\ ~ConsentGiven)
        => /\ ~IssuedOn("write", getConfigPath(Id))
           /\ ~IssuedOn("rm", getConfigPath(Id))
           /\ ~IssuedOn("link", getEnabledPath(Id))
           /\ ~IssuedOn("rm", getEnabledPath(Id))
           /\ Id \in sitesAvailable
           /\ (Id \in sitesEnabled) = (Id \in initEnabled)
           /\ ~Completed

\* the run met an existing, enabled definition and ended with it untouched
C17_Witness ==
    /\ DefinitionExisted
    /\ Id \in initEnabled
    /\ ~ConsentGiven
    /\ RunEnded
    /\ ~Interrupted
    /\ cmds = <<>>
    /\ Id \in sitesAvailable
    /\ Id \in sitesEnabled

(***************************************************************************)
(* C18                                                                     *)
(***************************************************************************)
\* C18: sanitizing the result of sanitizeProjectName gives that result
\* again, for every raw identifier: the second application does not throw
\* and returns its argument.
C18_SanitizeIdempotent ==
    command = "sanitize" =>
        /\ pc # "threwAgain"
        /\ pc = "sanitizedTwice"
              => processedConfig.cleanProjectName = processedConfig.projectName

(***************************************************************************)
(* C19                                                                     *)
(***************************************************************************)
\* lowercase, within the sanitizer's alphabet, hyphens neither repeated nor
\* at either end
CleanShape(s) ==
    /\ \A i \in 1..Len(s) : s[i] \in LowerChars \cup DigitChars \cup {"-", "_"}
    /\ \A i \in 1..(Len(s) - 1) : ~(s[i] = "-" /\ s[i + 1] = "-")
    /\ Len(s) > 0 => (s[1] # "-" /\ s[Len(s)] # "-")

\* C19: sanitizeProjectName returns for every raw string, the empty one
\* included, and what it returns is lowercase, within the alphabet, without
\* repeated, leading or trailing separators.
C19_SanitizeTotalAndClean ==
    command = "sanitize" =>
        /\ pc # "threw"
        /\ pc = "sanitizeAgain" => CleanShape(processedConfig.cleanProjectName)

(***************************************************************************)
(* C20                                                                     *)
(***************************************************************************)
\* ^[a-z0-9-]+$
MatchesCleanIdentifier(s) ==
    /\ Len(s) >= 1
    /\ \A i \in 1..Len(s) : s[i] \in LowerChars \cup DigitChars \cup {"-"}

\* C20: the cleanProjectName of every ProcessedConfig that validation
\* produced is non-empty, at most 50 characters long and matches
\* ^[a-z0-9-]+$.
C20_ProcessedConfigInvariant ==
    (command = "deploy" /\ processedConfig # NoConfig)
        => /\ Len(Id) >= 1
           /\ Len(Id) <= PROJECT_NAME_MAX_LENGTH
           /\ MatchesCleanIdentifier(Id)

(***************************************************************************)
(* C21                                                                     *)
(***************************************************************************)
\* C21: sanitizePortNumber returns a port exactly when it lies in 1..65535
\* and is not reserved, and what it returns is that port; otherwise it
\* throws.
C21_SanitizePortExact ==
    command = "sanitizePort" =>
        LET p == rawConfig.portNumber
            acceptable ==
                /\ 1 <= p
                /\ p <= 65535
                /\ p \notin {22, 25, 53, 80, 110, 143, 443, 993, 995}
        IN  /\ pc = "portSanitized"
                  => (acceptable /\ processedConfig.portNumber = p)
            /\ pc = "threw" => ~acceptable

\* the largest port went through unchanged
C21_Witness ==
    /\ command = "sanitizePort"
    /\ pc = "portSanitized"
    /\ rawConfig.portNumber = 65535
    /\ processedConfig.portNumber = 65535

(***************************************************************************)
(* C22, C23: vocabulary for configuration texts                            *)
(***************************************************************************)
Occurrences(text, word) == Cardinality({i \in 1..Len(text) : text[i] = word})

\* word i stands in a comment: a "#" before it on its line
InComment(text, i) ==
    \E k \in 1..i : text[k] = "#" /\ \A j \in k..(i - 1) : text[j] # "\n"

\* word i is `word`, outside the comments
Directive(text, i, word) ==
    i \in 1..Len(text) /\ text[i] = word /\ ~InComment(text, i)

\* how many blocks are open after the first i words
Depth(text, i) ==
    Cardinality({k \in 1..i : Directive(text, k, "{")})
        - Cardinality({k \in 1..i : Directive(text, k, "}")})

\* as many "{" as "}" in the whole text, as validateConfigSyntax counts them,
\* and no block closed that was not opened
BalancedBraces(text) ==
    /\ Occurrences(text, "{") = Occurrences(text, "}")
    /\ \A i \in 1..Len(text) : Directive(text, i, "}") => Depth(text, i) >= 0
    /\ Depth(text, Len(text)) = 0

\* where the top-level blocks opened by `word` start
BlocksOf(text, word) ==
    {i \in 1..Len(text) : Directive(text, i, word) /\ Depth(text, i - 1) = 0}

UpstreamBlocks(text) ==
    {i \in BlocksOf(text, "upstream") :
        \E j \in (i + 1)..Len(text) :
           /\ Directive(text, j, "{")
           /\ \A k \in (i + 1)..(j - 1) : text[k] \notin {"{", "}", ";", "#", "\n"}}

\* server {
AllServerBlocks(text) ==
    {i \in BlocksOf(text, "server") : Directive(text, i + 1, "{")}

\* server { listen <port> ...
ServerBlocks(text, port) ==
    {i \in AllServerBlocks(text) :
        Directive(text, i + 2, "listen") /\ Directive(text, i + 3, port)}

\* the words `part` stand in the text from position i on
At(text, i, part) ==
    /\ i >= 1
    /\ i + Len(part) - 1 <= Len(text)
    /\ \A n \in 1..Len(part) : text[i + n - 1] = part[n]

Embeds(text, part) ==
    \E i \in 1..Len(text) : text[i] = part[1] /\ At(text, i, part)

\* the block whose "{" is word i closes with the "}" that is word j
ClosesAt(text, i, j) ==
    /\ j > i
    /\ Directive(text, i, "{")
    /\ Directive(text, j, "}")
    /\ Depth(text, j) = Depth(text, i - 1)
    /\ \A k \in (i + 1)..(j - 1) :
          Directive(text, k, "}") => Depth(text, k) > Depth(text, i - 1)

\* the block whose "{" is word i holds the words `part`
BlockEmbeds(text, i, part) ==
    \E k \in (i + 1)..Len(text) :
       /\ text[k] = part[1]
       /\ At(text, k, part)
       /\ \E j \in (k + Len(part))..Len(text) : ClosesAt(text, i, j)

CertificatePathsKeyedBy(text, i, domainName) ==
    /\ BlockEmbeds(text, i,
          <<"ssl_certificate", "/etc/letsencrypt/live/">> \o domainName
              \o <<"/fullchain.pem", ";">>)
    /\ BlockEmbeds(text, i,
          <<"ssl_certificate_key", "/etc/letsencrypt/live/">> \o domainName
              \o <<"/privkey.pem", ";">>)

\* location /health { ... } with access_log off and return 200 in it
EmbedsLivenessEndpoint(text) ==
    \E i \in 1..Len(text) :
        /\ text[i] = "location"
        /\ At(text, i, <<"location", "/health", "{">>)
        /\ BlockEmbeds(text, i + 2, <<"access_log", "off", ";">>)
        /\ BlockEmbeds(text, i + 2, <<"return", "200">>)

\* location ~ /\. { deny all; } and location ~* \.(env|log|ini|conf)$ { deny all; }
EmbedsDenyRules(text) ==
    /\ Embeds(text, <<"location", "~", "/\\.", "{", "deny", "all", ";", "}">>)
    /\ Embeds(text, <<"location", "~*", "\\.(env|log|ini|conf)$", "{",
                      "deny", "all", ";", "}">>)

(***************************************************************************)
(* C22                                                                     *)
(***************************************************************************)
\* C22: for a configuration accepted by validation, the text of
\* generateNginxConfig has balanced braces, exactly one upstream block and
\* exactly one server block, the one listening on port 80; the text of
\* generateSSLConfig has these and exactly one more server block, listening
\* on port 443, whose two certificate paths name the configuration's domain.
C22_RenderedStructure ==
    command = "validateConfig" =>
        /\ pc \in {"rendered", "renderedSSL"} =>
              /\ BalancedBraces(returned)
              /\ Cardinality(UpstreamBlocks(returned)) = 1
              /\ Cardinality(ServerBlocks(returned, "80")) = 1
        /\ pc = "rendered" => Cardinality(AllServerBlocks(returned)) = 1
        /\ pc = "renderedSSL" =>
              /\ Cardinality(AllServerBlocks(returned)) = 2
              /\ Cardinality(ServerBlocks(returned, "443")) = 1
              /\ \A i \in ServerBlocks(returned, "443") :
                    /\ \A j \in ServerBlocks(returned, "80") : j < i
                    /\ CertificatePathsKeyedBy(returned, i + 1,
                                               processedConfig.domainName)

\* the encrypted text of a configuration whose name and domain were typed
\* in another case than they are used in
C22_Witness ==
    /\ command = "validateConfig"
    /\ pc = "renderedSSL"
    /\ rawConfig.projectName = <<"A", "_", "b">>
    /\ rawConfig.domainName = <<"A", "1", ".", "b">>
    /\ processedConfig.domainName = <<"a", "1", ".", "b">>
    /\ Cardinality(ServerBlocks(returned, "443")) = 1

(***************************************************************************)
(* C23                                                                     *)
(***************************************************************************)
\* C23: the text the deployment hands to the write of the definition is
\* generateNginxConfig's text for the processed configuration, with the
\* liveness endpoint and the deny rules in it.
C23_WrittenTextIsRendered ==
    (command = "deploy" /\ Issued("write")) =>
        /\ configContent = generateNginxConfig(processedConfig)
        /\ EmbedsLivenessEndpoint(configContent)
        /\ EmbedsDenyRules(configContent)

(***************************************************************************)
(* C28                                                                     *)
(***************************************************************************)
\* C28: validateDeploymentConfig runs the four checks whatever the earlier
\* ones found: its errors are those of the name check, then of the domain
\* check, then of the port check, then of the liveness probe, and isValid
\* holds exactly when none of the four found an error.
C28_AllChecksRun ==
    (command = "validateConfig" /\ pc = "validated") =>
        LET name == validateProjectName(rawConfig.projectName)
            domain == validateDomainName(rawConfig.domainName)
            port == validatePortNumber(rawConfig.portNumber)
            probe == checkPortConflicts(probeResult)
            errors == returned.errors
        IN  /\ Len(errors) = Len(name) + Len(domain) + Len(port) + Len(probe)
            /\ SubSeq(errors, 1, Len(name)) = name
            /\ SubSeq(errors, Len(name) + 1, Len(name) + Len(domain)) = domain
            /\ SubSeq(errors, Len(name) + Len(domain) + 1,
                      Len(name) + Len(domain) + Len(port)) = port
            /\ SubSeq(errors, Len(name) + Len(domain) + Len(port) + 1,
                      Len(errors)) = probe
            /\ returned.isValid <=>
                  (name = <<>> /\ domain = <<>> /\ port = <<>> /\ probe = <<>>)

\* all four checks failed and all four are reported
C28_Witness ==
    /\ command = "validateConfig"
    /\ pc = "validated"
    /\ validateProjectName(rawConfig.projectName) # <<>>
    /\ validateDomainName(rawConfig.domainName) # <<>>
    /\ validatePortNumber(rawConfig.portNumber) # <<>>
    /\ checkPortConflicts(probeResult) # <<>>
    /\ Len(returned.errors) >= 4
    /\ ~returned.isValid

(***************************************************************************)
(* C29                                                                     *)
(***************************************************************************)
\* the free space found is a number at or above the minimum
FreeSpaceAtOrAboveMinimum ==
    /\ ~systemChecks.availableSpace.isNaN
    /\ systemChecks.availableSpace.value >= 1024

\* C29: validateSystemRequirements returns isValid = TRUE exactly when the
\* user is not root, nginx is found, nginx is running and the free space is
\* at or above the minimum.
C29_SystemValidExactly ==
    (command = "validateSystem" /\ pc = "validated") =>
        (returned.isValid <=>
            /\ ~isRoot
            /\ systemChecks.nginx
            /\ systemChecks.nginxRunning
            /\ FreeSpaceAtOrAboveMinimum)

(***************************************************************************)
(* C24 .. C27: vocabulary for the calls of NginxService                    *)
(***************************************************************************)
\* the calls that have returned
Returned ==
    {k \in 1..Len(steps) : ~(k = Len(steps) /\ pc = "removeSiteConfig")}

CallsOf(operation) == {k \in 1..Len(steps) : steps[k].operation = operation}

LinksOf(fileSystem, id) == {t \in fileSystem.targets : t.name = id}

OtherLinks(fileSystem, id) == {t \in fileSystem.targets : t.name # id}

CommandFailed(call) == \E n \in 1..Len(call.executed) : ~call.executed[n].ok

ReportsFailure(result) == ~result.success /\ result.error # ""

(***************************************************************************)
(* C24                                                                     *)
(***************************************************************************)
\* C24: when enableSite succeeds twice in a row for an identifier, the file
\* system after the second call is the one after the first, and it holds
\* exactly one link for the identifier, which points at the identifier's
\* definition.
C24_EnableIdempotent ==
    command = "nginxService" =>
        \A k \in CallsOf("enableSite") :
            (/\ k + 1 \in CallsOf("enableSite")
             /\ steps[k + 1].id = steps[k].id
             /\ steps[k].result.success
             /\ steps[k + 1].result.success)
            => /\ steps[k + 1].after = steps[k].after
               /\ steps[k].id \in steps[k + 1].after.enabled
               /\ LinksOf(steps[k + 1].after, steps[k].id)
                     = {LinkTo(steps[k].id, getConfigPath(steps[k].id))}

\* enabled twice with success, starting from a link that pointed elsewhere
C24_Witness ==
    /\ command = "nginxService"
    /\ Len(steps) >= 2
    /\ steps[1].operation = "enableSite"
    /\ steps[2].operation = "enableSite"
    /\ steps[1].id = steps[2].id
    /\ steps[1].result.success
    /\ steps[2].result.success
    /\ LinksOf(steps[1].before, steps[1].id)
          = {LinkTo(steps[1].id, getConfigPath(<<"a">>))}
    /\ steps[1].id # <<"a">>

(***************************************************************************)
(* C25                                                                     *)
(***************************************************************************)
\* C25: disableSite leaves the definitions and the links of the other
\* identifiers as they were; when it succeeds the identifier has no link;
\* and when the identifier had no link and the executor did not fail, it
\* succeeds and changes nothing.
C25_DisableOnlyOwnLink ==
    command = "nginxService" =>
        \A k \in CallsOf("disableSite") :
            LET call == steps[k] IN
            /\ call.after.available = call.before.available
            /\ OtherLinks(call.after, call.id) = OtherLinks(call.before, call.id)
            /\ call.after.enabled \ {call.id} = call.before.enabled \ {call.id}
            /\ call.result.success =>
                  /\ call.id \notin call.after.enabled
                  /\ LinksOf(call.after, call.id) = {}
            /\ (call.id \notin call.before.enabled /\ ~call.fault) =>
                  /\ call.result.success
                  /\ call.after = call.before

\* a site without a link was disabled with success while another site had
\* its link and both had their definitions
C25_Witness ==
    /\ command = "nginxService"
    /\ Len(steps) >= 1
    /\ steps[1].operation = "disableSite"
    /\ steps[1].id \notin steps[1].before.enabled
    /\ steps[1].before.enabled # {}
    /\ steps[1].before.available = SiteIds
    /\ steps[1].result.success
    /\ steps[1].after = steps[1].before

(***************************************************************************)
(* C26                                                                     *)
(***************************************************************************)
\* C26: removeSite removes the link first and the definition second; when it
\* returns success neither the definition nor the link is there; when the
\* removal of the link fails it returns a failure without having touched the
\* definition.
C26_RemoveLinkThenDefinition ==
    command = "nginxService" =>
        \A k \in CallsOf("removeSite") :
            LET call == steps[k] IN
            /\ Len(call.executed) \in {1, 2}
            /\ call.executed[1] \in
                  {Command("rm", getEnabledPath(call.id), ok) : ok \in BOOLEAN}
            /\ Len(call.executed) = 2 =>
                  call.executed[2] \in
                     {Command("rm", getConfigPath(call.id), ok) : ok \in BOOLEAN}
            /\ k \in Returned =>
                  /\ call.result.success =>
                        /\ call.id \notin call.after.available
                        /\ call.id \notin call.after.enabled
                        /\ LinksOf(call.after, call.id) = {}
                  /\ ~call.executed[1].ok =>
                        /\ ReportsFailure(call.result)
                        /\ Len(call.executed) = 1
                        /\ call.after.available = call.before.available
            /\ ~call.executed[1].ok => k \in Returned

\* the removal of the link of an enabled site failed: failure returned, the
\* definition and the link still there
C26_Witness ==
    /\ command = "nginxService"
    /\ pc = "ready"
    /\ Len(steps) >= 1
    /\ steps[1].operation = "removeSite"
    /\ steps[1].id \in steps[1].before.available
    /\ steps[1].id \in steps[1].before.enabled
    /\ ~steps[1].executed[1].ok
    /\ ReportsFailure(steps[1].result)
    /\ steps[1].id \in sitesAvailable

(***************************************************************************)
(* C27                                                                     *)
(***************************************************************************)
\* C27: no operation of NginxService throws; when a command of a call fails,
\* the call returns success: false with an error.
C27_FailuresAreResults ==
    command = "nginxService" =>
        /\ pc # "threw"
        /\ \A k \in Returned :
              /\ CommandFailed(steps[k]) => ReportsFailure(steps[k].result)
              /\ steps[k].result = applyResult \/ k < Len(steps)

\* a failed reload after a removal whose second command failed
C27_Witness ==
    /\ command = "nginxService"
    /\ pc = "ready"
    /\ Len(steps) = 2
    /\ steps[1].operation = "removeSite"
    /\ Len(steps[1].executed) = 2
    /\ ~steps[1].executed[2].ok
    /\ ReportsFailure(steps[1].result)
    /\ steps[2].operation = "reloadNginx"
    /\ CommandFailed(steps[2])
    /\ ReportsFailure(applyResult)

(***************************************************************************)
(* C30                                                                     *)
(***************************************************************************)
\* the run passed both existence checks without finding a definition
PassedExistenceCheck(run) ==
    /\ \E i \in DOMAIN run.steps : run.steps[i] = Step("ConfigValidated", TRUE)
    /\ \A i \in DOMAIN run.log : run.log[i] # "Site configuration already exists"
    /\ \E i \in DOMAIN run.cmds : run.cmds[i].cmd = "write"

\* the run ended with exit status 0, the Complete step and the success line
ReportedComplete(run) ==
    /\ run.pc = "exited"
    /\ run.exitCode = 0
    /\ run.summary.produced
    /\ \E i \in DOMAIN run.steps : run.steps[i] = Step("Complete", TRUE)
    /\ \E i \in DOMAIN run.log :
          run.log[i] = "Deployment completed successfully!"

\* the run rolled back: both removals were issued and succeeded
RolledBackWithSuccess(run) ==
    /\ run.pc = "exited"
    /\ run.exitCode = 1
    /\ \E i \in DOMAIN run.cmds :
          run.cmds[i] =
              Command("rm", getEnabledPath(run.processedConfig.cleanProjectName),
                      TRUE)
    /\ \E i \in DOMAIN run.cmds :
          run.cmds[i] =
              Command("rm", getConfigPath(run.processedConfig.cleanProjectName),
                      TRUE)

\* C30: deploy() takes no lock: with two runs for the same identifier side by
\* side, the run that is running can always take its next step and the run
\* that is waiting can always be let on, wherever the other one stands.
C30_NoLock ==
    (command = "deploy" /\ suspended.present) =>
        /\ pc # "exited" => ENABLED ConcurrentStep
        /\ suspended.context.pc # "exited" => ENABLED Switch

\* both runs found no definition; one rolled back with success, the other
\* reported Complete; neither the definition nor the link is there
C30_Witness ==
    /\ command = "deploy"
    /\ suspended.present
    /\ processedConfig.cleanProjectName \notin initAvailable
    /\ suspended.context.processedConfig = processedConfig
    /\ PassedExistenceCheck(Context)
    /\ PassedExistenceCheck(suspended.context)
    /\ ReportedComplete(Context)
    /\ RolledBackWithSuccess(suspended.context)
    /\ processedConfig.cleanProjectName \notin sitesAvailable
    /\ processedConfig.cleanProjectName \notin sitesEnabled

(***************************************************************************)
(* C31                                                                     *)
(***************************************************************************)
RollbackStarted == Logged("Deployment failed - rolling back changes...")

DeploymentDeclined == Logged("Deployment cancelled by user")

\* C31: in a deploy run, rollback is started exactly when enable, test or
\* reload failed after a successful write, and only rollback issues removals;
\* a rollback that is not cut short by a signal issues the link removal and
\* the definition deletion.  A failed write, a failed validation or a
\* declined confirmation starts no rollback and issues no removal.
C31_RollbackExactlyAfterWrite ==
    command = "deploy" =>
        /\ RollbackStarted <=> (Succeeded("write") /\ CommitStageFailed)
        /\ Issued("rm") => RollbackStarted
        /\ (RunEnded /\ ~Interrupted /\ RollbackStarted)
              => /\ IssuedOn("rm", getEnabledPath(Id))
                 /\ IssuedOn("rm", getConfigPath(Id))
        /\ (\/ StepFailed("ConfigWritten")
            \/ StepFailed("SystemValidated")
            \/ StepFailed("ConfigValidated")
            \/ DeploymentDeclined)
              => ~RollbackStarted /\ ~Issued("rm")

\* the test failed after the write and the link, and rollback removed both
C31_Witness ==
    /\ command = "deploy"
    /\ RunEnded
    /\ StepDone("ConfigWritten")
    /\ StepDone("SiteEnabled")
    /\ StepFailed("ConfigTested")
    /\ RollbackStarted
    /\ cmds[Len(cmds)] = Command("rm", getConfigPath(Id), TRUE)
    /\ handledError.code = "CONFIG_TEST_FAILED"

(***************************************************************************)
(* C32                                                                     *)
(***************************************************************************)
\* C32: for every raw project name validation accepts, remove resolves the
\* name to the identifier deploy resolved it to, and so to the definition
\* path deploy wrote.
C32_SameIdentifier ==
    (command = "resolve" /\ pc = "removeResolved")
        => /\ returned = processedConfig.cleanProjectName
           /\ getConfigPath(returned) = siteConfigPath

(***************************************************************************)
(* C33                                                                     *)
(***************************************************************************)
\* the requirements the system validated breaks
FailingRequirements ==
    (IF isRoot THEN {"root"} ELSE {})
        \cup (IF ~systemChecks.nginx THEN {"binary"} ELSE {})
        \cup (IF jsLessThan(systemChecks.availableSpace, requiredSpace)
              THEN {"space"} ELSE {})
        \cup (IF ~systemChecks.nginxRunning THEN {"daemon"} ELSE {})

\* C33: the result of system validation carries one error for each
\* requirement that fails, not only the first.
C33_SystemFailuresAggregated ==
    (command = "validateSystem" /\ pc = "validated")
        => Len(returned.errors) = Cardinality(FailingRequirements)

(***************************************************************************)
(* C34                                                                     *)
(***************************************************************************)
\* C34: in a deploy run the first command, the write, is issued from
\* createConfiguration, which is entered from handleExistingSite only, which
\* in turn is entered only from a confirmation that was answered yes; a
\* declined confirmation ends the run at once with exit status 0, no error,
\* no command issued and every definition and link as it was.
C34_WriteOnlyAfterConfirmation ==
    [][command = "deploy" =>
          /\ (pc = "confirmDeployment" /\ pc' = "exited")
                => /\ Interrupted' \/ (exitCode' = 0 /\ DeploymentDeclined')
                   /\ handledError' = NoError
                   /\ NothingTouched'
          /\ (pc = "confirmDeployment" /\ pc' \notin {pc, "exited"})
                => pc' = "handleExistingSite" /\ log' = log
          /\ pc' = "handleExistingSite"
                => pc \in {"confirmDeployment", "handleExistingSite"}
          /\ pc' = "createConfiguration"
                => pc \in {"handleExistingSite", "createConfiguration"}
          /\ (cmds = <<>> /\ cmds' # <<>>)
                => /\ pc = "createConfiguration"
                   /\ cmds'[1].cmd = "write"
                   /\ ~DeploymentDeclined]_vars

\* the operator declined the deployment of a new site on a system that has
\* another site defined and enabled
C34_Witness ==
    /\ command = "deploy"
    /\ RunEnded
    /\ exitCode = 0
    /\ DeploymentDeclined
    /\ ~Logged("Site configuration already exists")
    /\ StepDone("ConfigValidated")
    /\ Id \notin initAvailable
    /\ initAvailable # {}
    /\ initEnabled # {}
    /\ NothingTouched

(***************************************************************************)
(* C35                                                                     *)
(***************************************************************************)
\* the run wrote the definition of an identifier that had one when it started
OverwroteExisting == Id \in initAvailable /\ Succeeded("write")

\* the run of the single-file deployer overwrote a definition, failed at
\* enable, test or reload, and ended after its rollback
RolledBackAfterOverwrite ==
    /\ command = "index"
    /\ OverwroteExisting
    /\ CommitStageFailed
    /\ RunEnded
    /\ exitCode = 1

SucceededOn(c, path) ==
    \E i \in DOMAIN cmds : cmds[i].cmd = c /\ cmds[i].path = path /\ cmds[i].ok

\* C36: rollback logs its success only when the link removal and the
\* definition deletion both succeeded; a rollback in which either failed
\* logs the failure and the clean-up hint, and not the success.
C36_RollbackSuccessOnlyWhenBothRemoved ==
    command = "deploy" =>
        /\ Logged("Rollback completed successfully")
              => /\ SucceededOn("rm", getEnabledPath(Id))
                 /\ SucceededOn("rm", getConfigPath(Id))
        /\ (RunEnded /\ ~Interrupted /\ RollbackStarted /\ ~RemovalsSucceeded)
              => /\ Logged("Rollback failed")
                 /\ Logged("You may need to manually clean up")
                 /\ ~Logged("Rollback completed successfully")

(***************************************************************************)
(* C37                                                                     *)
(***************************************************************************)
\* the identifier a deploy run or a remove works on
TargetId ==
    IF command = "remove"
    THEN (IF options = <<>> THEN <<>>
          ELSE removeSiteCleanProjectName(options[1]))
    ELSE Id

\* C37: in every state of a deploy run (its rollback included) and of a
\* remove, every command that names a path names the definition or the link
\* of the run's own identifier, and the definitions, the links and the link
\* targets of every other identifier are what they were when the run started.
C37_OnlyOwnDefinitionAndLink ==
    command \in {"deploy", "remove"} =>
        /\ \A i \in DOMAIN cmds :
              cmds[i].path \in {NoPath, getConfigPath(TargetId),
                                getEnabledPath(TargetId)}
        /\ sitesAvailable \ {TargetId} = initAvailable \ {TargetId}
        /\ sitesEnabled \ {TargetId} = initEnabled \ {TargetId}
        /\ {t \in linkTargets : t.name # TargetId}
              = {LinkTo(id, getConfigPath(id)) : id \in initEnabled \ {TargetId}}

\* a deploy of one identifier was rolled back on a system where another
\* identifier is defined and enabled
C37_Witness ==
    /\ command = "deploy"
    /\ RunEnded
    /\ RollbackStarted
    /\ SucceededOn("rm", getEnabledPath(Id))
    /\ SucceededOn("rm", getConfigPath(Id))
    /\ \E other \in SiteIds :
          /\ other # Id
          /\ other \in sitesAvailable
          /\ other \in sitesEnabled
          /\ LinkTo(other, getConfigPath(other)) \in linkTargets

(***************************************************************************)
(* C38                                                                     *)
(***************************************************************************)
RemovalDeclined == Logged("Site removal cancelled")

SiteMissing == Logged("Site does not exist")

\* C38: a remove issues its first command, the link removal, only from the
\* step that follows a confirmation answered yes, which is asked only when
\* the definition of the identifier exists; when the site does not exist or
\* the operator declines, the run ends with no command issued and every
\* definition and link as it was.
C38_RemoveOnlyExistingAndConfirmed ==
    [][command = "remove" =>
          /\ (cmds = <<>> /\ cmds' # <<>>)
                => /\ pc = "removeSiteDisable"
                   /\ cmds'[1].cmd = "rm"
                   /\ TargetId \in sitesAvailable
                   /\ ~RemovalDeclined
          /\ pc' = "removeSiteDisable"
                => pc \in {"removeSiteConfirm", "removeSiteDisable"}
          /\ (pc = "removeSiteConfirm" /\ pc' = "removeSiteDisable")
                => log' = log
          /\ pc' = "removeSiteConfirm"
                => /\ pc \in {"removeSiteExists", "removeSiteConfirm"}
                   /\ TargetId \in sitesAvailable
          /\ (pc = "removeSiteExists" /\ TargetId \notin sitesAvailable)
                => (pc' \in {pc, "exited"} /\ NothingTouched')
          /\ (pc = "removeSiteConfirm" /\ pc' = "exited")
                => /\ Interrupted' \/ RemovalDeclined'
                   /\ NothingTouched'
          /\ (RemovalDeclined' \/ SiteMissing')
                => (RunEnded' /\ NothingTouched')]_vars

\* the operator declined the removal of a site that is defined and enabled
C38_Witness ==
    /\ command = "remove"
    /\ RunEnded
    /\ RemovalDeclined
    /\ TargetId \in sitesAvailable
    /\ TargetId \in sitesEnabled
    /\ NothingTouched

(***************************************************************************)
(* C39                                                                     *)
(***************************************************************************)
ReloadFailed == \E i \in DOMAIN cmds : cmds[i].cmd = "reload" /\ ~cmds[i].ok

\* C39: in a remove, when the reload failed after the link and the
\* definition were deleted, the run has warned, has reported the site as
\* removed, has ended normally with status 0 and no error handled, and the
\* definition and the link of the identifier are still absent.
C39_ReloadFailureKeepsRemoval ==
    (command = "remove" /\ ReloadFailed)
        => /\ SucceededOn("rm", getEnabledPath(TargetId))
           /\ SucceededOn("rm", getConfigPath(TargetId))
           /\ Logged("Failed to reload nginx after site removal")
           /\ Logged("Site removed successfully")
           /\ RunEnded
           /\ exitCode = 0
           /\ handledError = NoError
           /\ TargetId \notin sitesAvailable
           /\ TargetId \notin sitesEnabled

\* a site that was defined and enabled was removed and the reload failed
C39_Witness ==
    /\ command = "remove"
    /\ ReloadFailed
    /\ TargetId \in initAvailable
    /\ TargetId \in initEnabled
    /\ TargetId \notin sitesAvailable
    /\ TargetId \notin sitesEnabled
    /\ exitCode = 0

====
